---------------------------- MODULE Spec2Model ----------------------------
(***************************************************************************)
(* A state-machine model of the YMF271 ("OPX") emulation core,             *)
(* src/emu/cores/ymf271.c: the register front-end (ymf271_w and the FM,    *)
(* PCM and timer/group decoders), key-on synchronisation, device reset,    *)
(* the timer expiry hooks, the PCM playback engine with its 18-bit         *)
(* accumulator path, the FM / PFM operator kernels and the group           *)
(* dispatcher of ymf271_update.                                            *)
(*                                                                         *)
(* The chip is one record, `chip', whose fields are the fields of          *)
(* YMF271Chip; every C function that changes the chip is an operator from  *)
(* a chip (or slot) record to the changed record, and every host call is   *)
(* one action.  The lookup tables are those init_tables builds for the     *)
(* standard clock, 16934400 Hz.                                            *)
(*                                                                         *)
(* Number representation.  TLC's integers are 32 bits wide, so the 64-bit  *)
(* phase accumulator stepptr is kept as a record [i, f]: f is the 16-bit   *)
(* fraction (stepptr & 0xffff) and i stands for the 48-bit sample index    *)
(* stepptr >> 16, a negative i meaning the unsigned value 2^48 + i (the    *)
(* accumulator after it wrapped below zero).  A double that is only ever   *)
(* 0.0 or 1.0 (lfo_phasemod) is kept in units of 1/65536.                  *)
(***************************************************************************)
EXTENDS Integers, Sequences, FiniteSets, TLC

\* ------------------------------------------------------------------------
\* Program constants
\* ------------------------------------------------------------------------
ACC_18BIT_MAX == 131071
ACC_18BIT_MIN == -131072
SIN_BITS == 10
SIN_LEN == 1024
LFO_LENGTH == 256
LFO_SHIFT == 8
ALFO_MAX == 65536
ALFO_MIN == 0
ENV_ATTACK == 0
ENV_DECAY1 == 1
ENV_DECAY2 == 2
ENV_RELEASE == 3
OP_INPUT_FEEDBACK == -1
OP_INPUT_NONE == -2
ENV_VOLUME_SHIFT == 16
ACC_TL_SCALE == 2
NumSlots == 48
NumGroups == 12
\* 1.0 as a phase-modulation multiplier, in units of 1/65536
PhaseModOne == 65536
\* the 23-bit external-memory address mask, 0x7fffff
ADDR_MASK == 8388607

Slots == 0 .. (NumSlots - 1)
Groups == 0 .. (NumGroups - 1)

\* ------------------------------------------------------------------------
\* Bit arithmetic on non-negative integers
\* ------------------------------------------------------------------------
Pow2Table ==
  <<1, 2, 4, 8, 16, 32, 64, 128, 256, 512, 1024, 2048, 4096, 8192, 16384, 32768,
    65536, 131072, 262144, 524288, 1048576, 2097152, 4194304, 8388608, 16777216,
    33554432, 67108864, 134217728, 268435456, 536870912, 1073741824>>
Pow2(n) == Pow2Table[n + 1]

\* (x >> lo) & (2^n - 1)
Bits(x, lo, n) == (x \div Pow2(lo)) % Pow2(n)

\* x with its bits lo .. lo+n-1 replaced by the low n bits of v
SetBits(x, lo, n, v) == x - Bits(x, lo, n) * Pow2(lo) + (v % Pow2(n)) * Pow2(lo)

\* arithmetic shift right (floor), as gcc/clang/msvc compile >> on signed values
Sar(x, n) == x \div Pow2(n)

\* C's integer division, truncating toward zero
CDiv(x, d) == IF x >= 0 THEN x \div d ELSE -((-x) \div d)

\* x * 2^k for k >= 0, floor(x / 2^-k) for k < 0 (x >= 0)
ScalePow2(x, k) == IF k >= 0 THEN x * Pow2(k) ELSE x \div Pow2(-k)

\* F applied to the value of x, x being evaluated first
Then(x, F(_)) == CHOOSE r \in {F(y) : y \in {x}} : TRUE

Min(a, b) == IF a < b THEN a ELSE b
Max(a, b) == IF a > b THEN a ELSE b

\* ------------------------------------------------------------------------
\* Constant tables of the source
\* ------------------------------------------------------------------------
\* pow_table[b] = 2^PowExp[b+1]
PowExp == <<7, 8, 9, 10, 11, 12, 13, 14, -1, 0, 1, 2, 3, 4, 5, 6>>

\* 2 * multiple_table[m]
MultipleX2 == <<1, 2, 4, 6, 8, 10, 12, 14, 16, 18, 20, 22, 24, 26, 28, 30>>

feedback_level == <<0, 1, 2, 4, 8, 16, 32, 64>>

modulation_level == <<16, 8, 4, 2, 1, 32, 64, 128>>

\* a group table without gaps: the nibbles 3, 7, 0xB, 0xF name the group before them
fm_tab_no_gaps == <<0, 1, 2, 2, 3, 4, 5, 5, 6, 7, 8, 8, 9, 10, 11, 11>>

fm_tab == <<0, 1, 2, -1, 3, 4, 5, -1, 6, 7, 8, -1, 9, 10, 11, -1>>

pcm_tab == <<0, 4, 8, -1, 12, 16, 20, -1, 24, 28, 32, -1, 36, 40, 44, -1>>

\* ------------------------------------------------------------------------
\* Tables built by init_tables / used by init_envelope, init_lfo at the
\* standard clock (clock_correction = 1.0), entry i of the C array at i+1
\* ------------------------------------------------------------------------
\* (int)((255.0 / lut_ar[rate]) * 65536.0), 0 for rate < 4
AttackStepTable ==
  <<0, 0, 0, 0, 61, 76, 91, 107, 122, 152, 182, 214, 
    244, 304, 365, 428, 489, 608, 731, 858, 979, 1217, 1462, 1712, 
    1959, 2434, 2925, 3424, 3919, 4869, 5851, 6848, 7839, 9739, 11703, 13700, 
    15678, 19473, 23406, 27400, 31344, 38946, 46783, 54761, 62740, 77973, 93567, 109523, 
    125480, 153420, 177079, 201568, 222911, 274601, 326680, 371519, 430624, 541356, 664823, 789478, 
    881278, 881278, 881278, 5413566>>

DecayStepTable ==
  <<0, 0, 0, 0, 4, 5, 6, 7, 8, 10, 12, 14, 
    16, 20, 24, 28, 32, 40, 48, 56, 64, 81, 97, 113, 
    129, 162, 194, 226, 259, 324, 388, 453, 518, 648, 777, 907, 
    1036, 1296, 1554, 1814, 2072, 2592, 3109, 3628, 4145, 5185, 6219, 7256, 
    8293, 10367, 11194, 14524, 16598, 20730, 24898, 29082, 33212, 41551, 49861, 58210, 
    66599, 66599, 66599, 66599>>

Decay1StepTable ==
  <<
  <<0, 0, 0, 0, 0, 0, 0, 0, 0, 0, 0, 0, 
    0, 0, 0, 0, 0, 0, 0, 0, 0, 0, 0, 0, 
    0, 0, 0, 0, 0, 0, 0, 0, 0, 0, 0, 0, 
    0, 0, 0, 0, 0, 0, 0, 0, 0, 0, 0, 0, 
    0, 0, 0, 0, 0, 0, 0, 0, 0, 0, 0, 0, 
    0, 0, 0, 0>>,
  <<0, 0, 0, 0, 0, 0, 0, 0, 0, 0, 0, 0, 
    1, 1, 1, 1, 2, 2, 3, 3, 4, 5, 6, 7, 
    8, 10, 12, 14, 16, 20, 24, 28, 32, 40, 48, 56, 
    65, 81, 97, 113, 130, 162, 195, 227, 260, 325, 390, 455, 
    520, 650, 702, 911, 1041, 1300, 1562, 1824, 2083, 2607, 3128, 3652, 
    4178, 4178, 4178, 4178>>,
  <<0, 0, 0, 0, 0, 0, 0, 0, 1, 1, 1, 1, 
    2, 2, 3, 3, 4, 5, 6, 7, 8, 10, 12, 14, 
    16, 20, 24, 28, 32, 40, 48, 56, 65, 81, 97, 113, 
    130, 162, 195, 227, 260, 325, 390, 455, 520, 650, 780, 910, 
    1040, 1301, 1404, 1822, 2082, 2601, 3124, 3649, 4167, 5214, 6257, 7304, 
    8357, 8357, 8357, 8357>>,
  <<0, 0, 0, 0, 0, 0, 1, 1, 1, 1, 2, 2, 
    3, 3, 4, 5, 6, 7, 9, 10, 12, 15, 18, 21, 
    24, 30, 36, 42, 48, 61, 73, 85, 97, 122, 146, 170, 
    195, 244, 292, 341, 390, 488, 585, 682, 780, 976, 1170, 1365, 
    1561, 1951, 2107, 2734, 3124, 3902, 4686, 5474, 6251, 7821, 9385, 10957, 
    12536, 12536, 12536, 12536>>,
  <<0, 0, 0, 0, 1, 1, 1, 1, 2, 2, 3, 3, 
    4, 5, 6, 7, 8, 10, 12, 14, 16, 20, 24, 28, 
    32, 40, 48, 56, 65, 81, 97, 113, 130, 162, 195, 227, 
    260, 325, 390, 455, 520, 650, 780, 910, 1040, 1301, 1560, 1821, 
    2081, 2602, 2809, 3645, 4165, 5202, 6248, 7299, 8335, 10428, 12514, 14609, 
    16715, 16715, 16715, 16715>>,
  <<0, 0, 0, 0, 1, 1, 1, 2, 2, 3, 3, 4, 
    5, 6, 7, 8, 10, 12, 15, 17, 20, 25, 30, 35, 
    40, 50, 60, 71, 81, 101, 121, 142, 162, 203, 243, 284, 
    325, 406, 487, 569, 650, 813, 975, 1138, 1300, 1626, 1951, 2276, 
    2602, 3252, 3512, 4556, 5207, 6503, 7811, 9124, 10419, 13035, 15642, 18262, 
    20893, 20893, 20893, 20893>>,
  <<0, 0, 0, 0, 1, 1, 2, 2, 3, 3, 4, 5, 
    6, 7, 9, 10, 12, 15, 18, 21, 24, 30, 36, 42, 
    48, 61, 73, 85, 97, 122, 146, 170, 195, 244, 292, 341, 
    390, 488, 585, 682, 780, 976, 1170, 1365, 1560, 1952, 2341, 2731, 
    3122, 3903, 4214, 5468, 6248, 7804, 9373, 10948, 12503, 15642, 18771, 21914, 
    25072, 25072, 25072, 25072>>,
  <<0, 0, 0, 0, 1, 2, 2, 3, 3, 4, 5, 6, 
    7, 8, 10, 12, 14, 17, 21, 24, 28, 35, 42, 49, 
    56, 71, 85, 99, 113, 142, 170, 199, 227, 284, 341, 398, 
    455, 569, 682, 796, 910, 1138, 1365, 1593, 1820, 2277, 2731, 3187, 
    3642, 4553, 4917, 6379, 7290, 9105, 10935, 12773, 14587, 18250, 21900, 25566, 
    29251, 29251, 29251, 29251>>,
  <<0, 0, 0, 0, 2, 2, 3, 3, 4, 5, 6, 7, 
    8, 10, 12, 14, 16, 20, 24, 28, 32, 40, 48, 56, 
    65, 81, 97, 113, 130, 162, 195, 227, 260, 325, 390, 455, 
    520, 650, 780, 910, 1040, 1301, 1560, 1821, 2080, 2602, 3121, 3642, 
    4163, 5204, 5619, 7290, 8331, 10405, 12497, 14598, 16671, 20857, 25028, 29219, 
    33430, 33430, 33430, 33430>>,
  <<0, 0, 0, 0, 2, 2, 3, 4, 4, 5, 6, 8, 
    9, 11, 13, 16, 18, 22, 27, 32, 36, 45, 54, 64, 
    73, 91, 109, 128, 146, 183, 219, 256, 292, 366, 439, 512, 
    585, 732, 878, 1024, 1170, 1464, 1756, 2048, 2341, 2928, 3512, 4097, 
    4683, 5854, 6321, 8202, 9373, 11706, 14060, 16423, 18755, 23464, 28157, 32871, 
    37608, 37608, 37608, 37608>>,
  <<0, 0, 0, 0, 2, 3, 3, 4, 5, 6, 7, 8, 
    10, 12, 15, 17, 20, 25, 30, 35, 40, 50, 60, 71, 
    81, 101, 121, 142, 162, 203, 243, 284, 325, 406, 487, 569, 
    650, 813, 975, 1138, 1300, 1626, 1951, 2276, 2601, 3253, 3902, 4553, 
    5204, 6505, 7024, 9113, 10414, 13007, 15622, 18248, 20838, 26071, 31285, 36524, 
    41787, 41787, 41787, 41787>>,
  <<0, 0, 0, 0, 2, 3, 4, 4, 5, 6, 8, 9, 
    11, 13, 16, 19, 22, 27, 33, 39, 44, 55, 67, 78, 
    89, 111, 134, 156, 178, 223, 268, 313, 357, 447, 536, 626, 
    715, 894, 1073, 1252, 1430, 1789, 2146, 2504, 2861, 3578, 4292, 5008, 
    5724, 7155, 7726, 10024, 11456, 14307, 17184, 20072, 22922, 28678, 34414, 40176, 
    45966, 45966, 45966, 45966>>,
  <<0, 0, 0, 0, 3, 3, 4, 5, 6, 7, 9, 10, 
    12, 15, 18, 21, 24, 30, 36, 42, 48, 61, 73, 85, 
    97, 122, 146, 170, 195, 244, 292, 341, 390, 488, 585, 682, 
    780, 976, 1170, 1365, 1560, 1952, 2341, 2731, 3121, 3904, 4682, 5463, 
    6244, 7806, 8429, 10936, 12497, 15608, 18746, 21897, 25006, 31285, 37543, 43829, 
    50145, 50145, 50145, 50145>>,
  <<0, 0, 0, 0, 3, 4, 4, 5, 6, 8, 9, 11, 
    13, 16, 19, 23, 26, 33, 39, 46, 52, 66, 79, 92, 
    105, 132, 158, 184, 211, 264, 317, 369, 422, 528, 634, 739, 
    845, 1057, 1268, 1479, 1690, 2114, 2536, 2959, 3381, 4229, 5073, 5919, 
    6765, 8457, 9131, 11847, 13539, 16909, 20309, 23722, 27090, 33892, 40671, 47481, 
    54324, 54324, 54324, 54324>>,
  <<0, 0, 0, 0, 3, 4, 5, 6, 7, 8, 10, 12, 
    14, 17, 21, 24, 28, 35, 42, 49, 56, 71, 85, 99, 
    113, 142, 170, 199, 227, 284, 341, 398, 455, 569, 682, 796, 
    910, 1138, 1365, 1593, 1820, 2277, 2731, 3187, 3641, 4555, 5463, 6374, 
    7285, 9107, 9834, 12758, 14580, 18210, 21871, 25547, 29174, 36500, 43800, 51133, 
    58502, 58502, 58502, 58502>>,
  <<0, 0, 0, 0, 3, 4, 5, 6, 7, 9, 11, 13, 
    15, 19, 22, 26, 30, 38, 45, 53, 60, 76, 91, 106, 
    121, 152, 182, 213, 243, 305, 365, 426, 487, 610, 731, 853, 
    975, 1220, 1463, 1707, 1950, 2440, 2926, 3414, 3901, 4880, 5853, 6829, 
    7806, 9758, 10536, 13670, 15622, 19510, 23433, 27372, 31258, 39107, 46928, 54786, 
    62681, 62681, 62681, 62681>>
  >>

LfoStepTable ==
  <<0, 0, 0, 0, 0, 0, 0, 0, 0, 0, 0, 0, 
    0, 0, 0, 0, 0, 0, 0, 0, 0, 0, 0, 0, 
    0, 0, 0, 0, 0, 0, 0, 0, 0, 0, 0, 0, 
    0, 0, 0, 0, 0, 0, 0, 0, 0, 0, 0, 0, 
    0, 0, 0, 0, 0, 0, 0, 0, 0, 0, 0, 0, 
    0, 0, 0, 0, 0, 0, 0, 0, 0, 0, 0, 0, 
    0, 0, 0, 0, 0, 0, 0, 0, 0, 0, 0, 0, 
    0, 0, 0, 0, 0, 0, 0, 0, 0, 0, 0, 0, 
    0, 0, 0, 0, 0, 0, 0, 0, 0, 0, 0, 0, 
    0, 0, 0, 0, 0, 0, 0, 0, 0, 0, 0, 0, 
    0, 0, 0, 0, 0, 0, 0, 0, 0, 0, 0, 0, 
    0, 0, 0, 0, 0, 0, 0, 0, 0, 0, 0, 0, 
    0, 0, 0, 0, 0, 0, 0, 0, 0, 0, 0, 0, 
    0, 0, 0, 0, 0, 1, 1, 1, 1, 1, 1, 1, 
    1, 1, 1, 1, 1, 1, 1, 1, 2, 2, 2, 2, 
    2, 2, 2, 2, 2, 2, 2, 3, 3, 3, 3, 3, 
    3, 4, 4, 4, 4, 4, 4, 5, 5, 5, 5, 6, 
    6, 6, 7, 7, 7, 8, 8, 8, 9, 9, 9, 10, 
    10, 11, 11, 12, 12, 13, 14, 15, 15, 16, 17, 17, 
    18, 18, 19, 20, 21, 22, 23, 24, 25, 26, 28, 30, 
    31, 34, 36, 39, 42, 46, 51, 56, 64, 73, 85, 102, 
    127, 170, 255, 512>>

lut_env_volume ==
  <<65536, 62766, 60114, 57574, 55141, 52811, 50580, 48442, 46395, 44435, 42557, 40759, 
    39037, 37387, 35807, 34294, 32845, 31457, 30128, 28855, 27636, 26468, 25350, 24278, 
    23253, 22270, 21329, 20428, 19565, 18738, 17946, 17188, 16461, 15766, 15100, 14462, 
    13850, 13265, 12705, 12168, 11654, 11161, 10690, 10238, 9805, 9391, 8994, 8614, 
    8250, 7901, 7567, 7248, 6941, 6648, 6367, 6098, 5840, 5594, 5357, 5131, 
    4914, 4706, 4507, 4317, 4135, 3960, 3792, 3632, 3479, 3332, 3191, 3056, 
    2927, 2803, 2685, 2571, 2463, 2359, 2259, 2163, 2072, 1984, 1900, 1820, 
    1743, 1670, 1599, 1531, 1467, 1405, 1345, 1288, 1234, 1182, 1132, 1084, 
    1038, 994, 952, 912, 873, 837, 801, 767, 735, 704, 674, 645, 
    618, 592, 567, 543, 520, 498, 477, 457, 438, 419, 401, 384, 
    368, 352, 338, 323, 310, 296, 284, 272, 260, 249, 239, 229, 
    219, 210, 201, 192, 184, 176, 169, 162, 155, 148, 142, 136, 
    130, 125, 119, 114, 110, 105, 100, 96, 92, 88, 84, 81, 
    77, 74, 71, 68, 65, 62, 60, 57, 55, 52, 50, 48, 
    46, 44, 42, 40, 39, 37, 35, 34, 32, 31, 30, 28, 
    27, 26, 25, 24, 23, 22, 21, 20, 19, 18, 17, 17, 
    16, 15, 15, 14, 13, 13, 12, 12, 11, 11, 10, 10, 
    9, 9, 8, 8, 8, 7, 7, 7, 6, 6, 6, 6, 
    5, 5, 5, 5, 4, 4, 4, 4, 4, 3, 3, 3, 
    3, 3, 3, 3, 2, 2, 2, 2, 2, 2, 2, 2, 
    2, 1, 1, 1, 1, 1, 1, 1, 1, 1, 1, 1, 
    1, 1, 1, 1>>

lut_total_level ==
  <<65536, 60114, 55141, 50580, 46395, 42557, 39037, 35807, 32845, 30128, 27636, 25350, 
    23253, 21329, 19565, 17946, 16461, 15100, 13850, 12705, 11654, 10690, 9805, 8994, 
    8250, 7567, 6941, 6367, 5840, 5357, 4914, 4507, 4135, 3792, 3479, 3191, 
    2927, 2685, 2463, 2259, 2072, 1900, 1743, 1599, 1467, 1345, 1234, 1132, 
    1038, 952, 873, 801, 735, 674, 618, 567, 520, 477, 438, 401, 
    368, 338, 310, 284, 260, 239, 219, 201, 184, 169, 155, 142, 
    130, 119, 110, 100, 92, 84, 77, 71, 65, 60, 55, 50, 
    46, 42, 39, 35, 32, 30, 27, 25, 23, 21, 19, 17, 
    16, 15, 13, 12, 11, 10, 9, 8, 8, 7, 6, 6, 
    5, 5, 4, 4, 4, 3, 3, 3, 2, 2, 2, 2, 
    2, 1, 1, 1, 1, 1, 1, 1>>

lut_attenuation ==
  <<65536, 49145, 32845, 24630, 16461, 12344, 8156, 6116, 4087, 3065, 2048, 1536, 
    1026, 1, 1, 1>>

lut_detune ==
  <<
  <<0, 0, 0, 0, 0, 0, 0, 0, 0, 0, 0, 0, 0, 0, 0, 0, 0, 0, 0, 0, 0, 0, 0, 0, 0, 0, 0, 0, 0, 0, 0, 0>>,
  <<0, 0, 0, 0, 1, 1, 1, 1, 0, 1, 1, 1, 0, 1, 1, 1, 0, 0, 0, 0, 0, 0, 0, 0, 0, 0, 0, 0, 0, 0, 0, 0>>,
  <<1, 2, 2, 2, 1, 2, 2, 2, 1, 2, 2, 2, 1, 1, 1, 1, 0, 1, 1, 1, 0, 1, 1, 1, 0, 0, 0, 1, 0, 0, 0, 0>>,
  <<2, 4, 4, 5, 1, 3, 3, 3, 1, 2, 2, 3, 1, 2, 2, 2, 1, 1, 1, 1, 0, 1, 1, 1, 0, 1, 1, 1, 0, 0, 0, 0>>,
  <<0, 0, 0, 0, 0, 0, 0, 0, 0, 0, 0, 0, 0, 0, 0, 0, 0, 0, 0, 0, 0, 0, 0, 0, 0, 0, 0, 0, 0, 0, 0, 0>>,
  <<0, 0, 0, 0, -1, -1, -1, -1, 0, -1, -1, -1, 0, -1, -1, -1, 0, 0, 0, 0, 0, 0, 0, 0, 0, 0, 0, 0, 0, 0, 0, 0>>,
  <<-1, -2, -2, -2, -1, -2, -2, -2, -1, -2, -2, -2, -1, -1, -1, -1, 0, -1, -1, -1, 0, -1, -1, -1, 0, 0, 0, -1, 0, 0, 0, 0>>,
  <<-2, -4, -4, -5, -1, -3, -3, -3, -1, -2, -2, -3, -1, -2, -2, -2, -1, -1, -1, -1, 0, -1, -1, -1, 0, -1, -1, -1, 0, 0, 0, 0>>
  >>

RKS_Table ==
  <<<<0, 0, 0, 0>>, <<0, 0, 0, 0>>, <<0, 0, 0, 1>>, <<0, 0, 0, 1>>, 
    <<0, 0, 1, 2>>, <<0, 0, 1, 2>>, <<0, 0, 1, 3>>, <<0, 0, 1, 3>>, 
    <<0, 0, 1, 4>>, <<0, 0, 1, 4>>, <<0, 0, 2, 5>>, <<0, 0, 2, 5>>, 
    <<0, 0, 1, 6>>, <<0, 0, 1, 6>>, <<0, 0, 1, 7>>, <<0, 0, 1, 7>>, 
    <<0, 0, 2, 8>>, <<0, 0, 2, 8>>, <<0, 0, 2, 9>>, <<0, 0, 2, 9>>, 
    <<0, 0, 2, 10>>, <<0, 0, 2, 10>>, <<0, 0, 2, 11>>, <<0, 0, 2, 11>>, 
    <<0, 0, 3, 12>>, <<0, 0, 3, 12>>, <<0, 0, 3, 13>>, <<0, 0, 3, 13>>, 
    <<0, 0, 3, 14>>, <<0, 0, 3, 14>>, <<0, 0, 3, 15>>, <<0, 0, 3, 15>>>>

WaveTable0 ==
  <<100, 301, 502, 703, 904, 1105, 1306, 1507, 1708, 1909, 2109, 2310, 
    2510, 2711, 2911, 3111, 3311, 3511, 3711, 3911, 4110, 4310, 4509, 4708, 
    4907, 5106, 5304, 5503, 5701, 5898, 6096, 6294, 6491, 6688, 6884, 7081, 
    7277, 7473, 7669, 7864, 8059, 8254, 8448, 8642, 8836, 9029, 9223, 9415, 
    9608, 9800, 9991, 10183, 10374, 10564, 10754, 10944, 11133, 11322, 11511, 11699, 
    11886, 12073, 12260, 12446, 12632, 12817, 13002, 13186, 13370, 13554, 13736, 13919, 
    14100, 14282, 14462, 14642, 14822, 15001, 15180, 15357, 15535, 15712, 15888, 16063, 
    16238, 16413, 16586, 16759, 16932, 17104, 17275, 17445, 17615, 17784, 17953, 18121, 
    18288, 18454, 18620, 18785, 18950, 19113, 19276, 19439, 19600, 19761, 19921, 20080, 
    20239, 20396, 20553, 20709, 20865, 21020, 21173, 21326, 21479, 21630, 21781, 21931, 
    22080, 22228, 22375, 22521, 22667, 22812, 22956, 23099, 23241, 23382, 23523, 23662, 
    23801, 23939, 24075, 24211, 24346, 24480, 24614, 24746, 24877, 25008, 25137, 25266, 
    25393, 25520, 25645, 25770, 25894, 26016, 26138, 26259, 26379, 26498, 26615, 26732, 
    26848, 26963, 27076, 27189, 27301, 27411, 27521, 27630, 27737, 27844, 27949, 28054, 
    28157, 28259, 28361, 28461, 28560, 28658, 28755, 28851, 28946, 29039, 29132, 29223, 
    29314, 29403, 29491, 29578, 29664, 29749, 29833, 29915, 29997, 30077, 30156, 30235, 
    30312, 30387, 30462, 30535, 30608, 30679, 30749, 30818, 30886, 30952, 31018, 31082, 
    31145, 31207, 31268, 31327, 31386, 31443, 31499, 31554, 31607, 31660, 31711, 31761, 
    31810, 31857, 31904, 31949, 31993, 32036, 32078, 32118, 32157, 32195, 32232, 32268, 
    32302, 32335, 32367, 32398, 32427, 32456, 32483, 32509, 32533, 32557, 32579, 32600, 
    32619, 32638, 32655, 32671, 32686, 32700, 32712, 32723, 32733, 32741, 32749, 32755, 
    32760, 32764, 32766, 32767, 32767, 32766, 32764, 32760, 32755, 32749, 32741, 32733, 
    32723, 32712, 32700, 32686, 32671, 32655, 32638, 32619, 32600, 32579, 32557, 32533, 
    32509, 32483, 32456, 32427, 32398, 32367, 32335, 32302, 32268, 32232, 32195, 32157, 
    32118, 32078, 32036, 31993, 31949, 31904, 31857, 31810, 31761, 31711, 31660, 31607, 
    31554, 31499, 31443, 31386, 31327, 31268, 31207, 31145, 31082, 31018, 30952, 30886, 
    30818, 30749, 30679, 30608, 30535, 30462, 30387, 30312, 30235, 30156, 30077, 29997, 
    29915, 29833, 29749, 29664, 29578, 29491, 29403, 29314, 29223, 29132, 29039, 28946, 
    28851, 28755, 28658, 28560, 28461, 28361, 28259, 28157, 28054, 27949, 27844, 27737, 
    27630, 27521, 27411, 27301, 27189, 27076, 26963, 26848, 26732, 26615, 26498, 26379, 
    26259, 26138, 26016, 25894, 25770, 25645, 25520, 25393, 25266, 25137, 25008, 24877, 
    24746, 24614, 24480, 24346, 24211, 24075, 23939, 23801, 23662, 23523, 23382, 23241, 
    23099, 22956, 22812, 22667, 22521, 22375, 22228, 22080, 21931, 21781, 21630, 21479, 
    21326, 21173, 21020, 20865, 20709, 20553, 20396, 20239, 20080, 19921, 19761, 19600, 
    19439, 19276, 19113, 18950, 18785, 18620, 18454, 18288, 18121, 17953, 17784, 17615, 
    17445, 17275, 17104, 16932, 16759, 16586, 16413, 16238, 16063, 15888, 15712, 15535, 
    15357, 15180, 15001, 14822, 14642, 14462, 14282, 14100, 13919, 13736, 13554, 13370, 
    13186, 13002, 12817, 12632, 12446, 12260, 12073, 11886, 11699, 11511, 11322, 11133, 
    10944, 10754, 10564, 10374, 10183, 9991, 9800, 9608, 9415, 9223, 9029, 8836, 
    8642, 8448, 8254, 8059, 7864, 7669, 7473, 7277, 7081, 6884, 6688, 6491, 
    6294, 6096, 5898, 5701, 5503, 5304, 5106, 4907, 4708, 4509, 4310, 4110, 
    3911, 3711, 3511, 3311, 3111, 2911, 2711, 2510, 2310, 2109, 1909, 1708, 
    1507, 1306, 1105, 904, 703, 502, 301, 100, -100, -301, -502, -703, 
    -904, -1105, -1306, -1507, -1708, -1909, -2109, -2310, -2510, -2711, -2911, -3111, 
    -3311, -3511, -3711, -3911, -4110, -4310, -4509, -4708, -4907, -5106, -5304, -5503, 
    -5701, -5898, -6096, -6294, -6491, -6688, -6884, -7081, -7277, -7473, -7669, -7864, 
    -8059, -8254, -8448, -8642, -8836, -9029, -9223, -9415, -9608, -9800, -9991, -10183, 
    -10374, -10564, -10754, -10944, -11133, -11322, -11511, -11699, -11886, -12073, -12260, -12446, 
    -12632, -12817, -13002, -13186, -13370, -13554, -13736, -13919, -14100, -14282, -14462, -14642, 
    -14822, -15001, -15180, -15357, -15535, -15712, -15888, -16063, -16238, -16413, -16586, -16759, 
    -16932, -17104, -17275, -17445, -17615, -17784, -17953, -18121, -18288, -18454, -18620, -18785, 
    -18950, -19113, -19276, -19439, -19600, -19761, -19921, -20080, -20239, -20396, -20553, -20709, 
    -20865, -21020, -21173, -21326, -21479, -21630, -21781, -21931, -22080, -22228, -22375, -22521, 
    -22667, -22812, -22956, -23099, -23241, -23382, -23523, -23662, -23801, -23939, -24075, -24211, 
    -24346, -24480, -24614, -24746, -24877, -25008, -25137, -25266, -25393, -25520, -25645, -25770, 
    -25894, -26016, -26138, -26259, -26379, -26498, -26615, -26732, -26848, -26963, -27076, -27189, 
    -27301, -27411, -27521, -27630, -27737, -27844, -27949, -28054, -28157, -28259, -28361, -28461, 
    -28560, -28658, -28755, -28851, -28946, -29039, -29132, -29223, -29314, -29403, -29491, -29578, 
    -29664, -29749, -29833, -29915, -29997, -30077, -30156, -30235, -30312, -30387, -30462, -30535, 
    -30608, -30679, -30749, -30818, -30886, -30952, -31018, -31082, -31145, -31207, -31268, -31327, 
    -31386, -31443, -31499, -31554, -31607, -31660, -31711, -31761, -31810, -31857, -31904, -31949, 
    -31993, -32036, -32078, -32118, -32157, -32195, -32232, -32268, -32302, -32335, -32367, -32398, 
    -32427, -32456, -32483, -32509, -32533, -32557, -32579, -32600, -32619, -32638, -32655, -32671, 
    -32686, -32700, -32712, -32723, -32733, -32741, -32749, -32755, -32760, -32764, -32766, -32767, 
    -32767, -32766, -32764, -32760, -32755, -32749, -32741, -32733, -32723, -32712, -32700, -32686, 
    -32671, -32655, -32638, -32619, -32600, -32579, -32557, -32533, -32509, -32483, -32456, -32427, 
    -32398, -32367, -32335, -32302, -32268, -32232, -32195, -32157, -32118, -32078, -32036, -31993, 
    -31949, -31904, -31857, -31810, -31761, -31711, -31660, -31607, -31554, -31499, -31443, -31386, 
    -31327, -31268, -31207, -31145, -31082, -31018, -30952, -30886, -30818, -30749, -30679, -30608, 
    -30535, -30462, -30387, -30312, -30235, -30156, -30077, -29997, -29915, -29833, -29749, -29664, 
    -29578, -29491, -29403, -29314, -29223, -29132, -29039, -28946, -28851, -28755, -28658, -28560, 
    -28461, -28361, -28259, -28157, -28054, -27949, -27844, -27737, -27630, -27521, -27411, -27301, 
    -27189, -27076, -26963, -26848, -26732, -26615, -26498, -26379, -26259, -26138, -26016, -25894, 
    -25770, -25645, -25520, -25393, -25266, -25137, -25008, -24877, -24746, -24614, -24480, -24346, 
    -24211, -24075, -23939, -23801, -23662, -23523, -23382, -23241, -23099, -22956, -22812, -22667, 
    -22521, -22375, -22228, -22080, -21931, -21781, -21630, -21479, -21326, -21173, -21020, -20865, 
    -20709, -20553, -20396, -20239, -20080, -19921, -19761, -19600, -19439, -19276, -19113, -18950, 
    -18785, -18620, -18454, -18288, -18121, -17953, -17784, -17615, -17445, -17275, -17104, -16932, 
    -16759, -16586, -16413, -16238, -16063, -15888, -15712, -15535, -15357, -15180, -15001, -14822, 
    -14642, -14462, -14282, -14100, -13919, -13736, -13554, -13370, -13186, -13002, -12817, -12632, 
    -12446, -12260, -12073, -11886, -11699, -11511, -11322, -11133, -10944, -10754, -10564, -10374, 
    -10183, -9991, -9800, -9608, -9415, -9223, -9029, -8836, -8642, -8448, -8254, -8059, 
    -7864, -7669, -7473, -7277, -7081, -6884, -6688, -6491, -6294, -6096, -5898, -5701, 
    -5503, -5304, -5106, -4907, -4708, -4509, -4310, -4110, -3911, -3711, -3511, -3311, 
    -3111, -2911, -2711, -2510, -2310, -2109, -1909, -1708, -1507, -1306, -1105, -904, 
    -703, -502, -301, -100>>

WaveTable1 ==
  <<0, 2, 7, 15, 24, 37, 52, 69, 89, 111, 135, 162, 
    192, 224, 258, 295, 334, 376, 420, 466, 515, 566, 620, 676, 
    734, 795, 858, 924, 991, 1061, 1134, 1208, 1285, 1365, 1446, 1530, 
    1616, 1704, 1794, 1887, 1982, 2079, 2178, 2279, 2382, 2488, 2595, 2705, 
    2817, 2931, 3046, 3164, 3284, 3406, 3529, 3655, 3783, 3912, 4043, 4176, 
    4311, 4448, 4587, 4727, 4870, 5013, 5159, 5306, 5455, 5606, 5758, 5912, 
    6068, 6224, 6383, 6543, 6704, 6867, 7032, 7198, 7365, 7533, 7703, 7874, 
    8047, 8221, 8395, 8572, 8749, 8927, 9107, 9288, 9469, 9652, 9836, 10021, 
    10207, 10393, 10581, 10769, 10959, 11149, 11340, 11531, 11724, 11917, 12111, 12305, 
    12500, 12696, 12892, 13089, 13286, 13483, 13682, 13880, 14079, 14278, 14478, 14678, 
    14878, 15078, 15278, 15479, 15680, 15881, 16082, 16283, 16484, 16685, 16886, 17087, 
    17288, 17489, 17689, 17889, 18089, 18289, 18489, 18688, 18887, 19085, 19284, 19481, 
    19678, 19875, 20071, 20267, 20462, 20656, 20850, 21043, 21236, 21427, 21618, 21808, 
    21998, 22186, 22374, 22560, 22746, 22931, 23115, 23298, 23479, 23660, 23840, 24018, 
    24195, 24372, 24546, 24720, 24893, 25064, 25234, 25402, 25569, 25735, 25900, 26063, 
    26224, 26384, 26543, 26699, 26855, 27009, 27161, 27312, 27461, 27608, 27754, 27897, 
    28040, 28180, 28319, 28456, 28591, 28724, 28855, 28984, 29112, 29238, 29361, 29483, 
    29603, 29721, 29836, 29950, 30062, 30172, 30279, 30385, 30488, 30589, 30688, 30785, 
    30880, 30973, 31063, 31151, 31237, 31321, 31402, 31482, 31559, 31633, 31706, 31776, 
    31843, 31909, 31972, 32033, 32091, 32147, 32201, 32252, 32301, 32347, 32391, 32433, 
    32472, 32509, 32543, 32575, 32605, 32632, 32656, 32678, 32698, 32715, 32730, 32743, 
    32752, 32760, 32765, 32767, 32767, 32765, 32760, 32752, 32743, 32730, 32715, 32698, 
    32678, 32656, 32632, 32605, 32575, 32543, 32509, 32472, 32433, 32391, 32347, 32301, 
    32252, 32201, 32147, 32091, 32033, 31972, 31909, 31843, 31776, 31706, 31633, 31559, 
    31482, 31402, 31321, 31237, 31151, 31063, 30973, 30880, 30785, 30688, 30589, 30488, 
    30385, 30279, 30172, 30062, 29950, 29836, 29721, 29603, 29483, 29361, 29238, 29112, 
    28984, 28855, 28724, 28591, 28456, 28319, 28180, 28040, 27897, 27754, 27608, 27461, 
    27312, 27161, 27009, 26855, 26699, 26543, 26384, 26224, 26063, 25900, 25735, 25569, 
    25402, 25234, 25064, 24893, 24720, 24546, 24372, 24195, 24018, 23840, 23660, 23479, 
    23298, 23115, 22931, 22746, 22560, 22374, 22186, 21998, 21808, 21618, 21427, 21236, 
    21043, 20850, 20656, 20462, 20267, 20071, 19875, 19678, 19481, 19284, 19085, 18887, 
    18688, 18489, 18289, 18089, 17889, 17689, 17489, 17288, 17087, 16886, 16685, 16484, 
    16283, 16082, 15881, 15680, 15479, 15278, 15078, 14878, 14678, 14478, 14278, 14079, 
    13880, 13682, 13483, 13286, 13089, 12892, 12696, 12500, 12305, 12111, 11917, 11724, 
    11531, 11340, 11149, 10959, 10769, 10581, 10393, 10207, 10021, 9836, 9652, 9469, 
    9288, 9107, 8927, 8749, 8572, 8395, 8221, 8047, 7874, 7703, 7533, 7365, 
    7198, 7032, 6867, 6704, 6543, 6383, 6224, 6068, 5912, 5758, 5606, 5455, 
    5306, 5159, 5013, 4870, 4727, 4587, 4448, 4311, 4176, 4043, 3912, 3783, 
    3655, 3529, 3406, 3284, 3164, 3046, 2931, 2817, 2705, 2595, 2488, 2382, 
    2279, 2178, 2079, 1982, 1887, 1794, 1704, 1616, 1530, 1446, 1365, 1285, 
    1208, 1134, 1061, 991, 924, 858, 795, 734, 676, 620, 566, 515, 
    466, 420, 376, 334, 295, 258, 224, 192, 162, 135, 111, 89, 
    69, 52, 37, 24, 15, 7, 2, 0, 0, -2, -7, -15, 
    -24, -37, -52, -69, -89, -111, -135, -162, -192, -224, -258, -295, 
    -334, -376, -420, -466, -515, -566, -620, -676, -734, -795, -858, -924, 
    -991, -1061, -1134, -1208, -1285, -1365, -1446, -1530, -1616, -1704, -1794, -1887, 
    -1982, -2079, -2178, -2279, -2382, -2488, -2595, -2705, -2817, -2931, -3046, -3164, 
    -3284, -3406, -3529, -3655, -3783, -3912, -4043, -4176, -4311, -4448, -4587, -4727, 
    -4870, -5013, -5159, -5306, -5455, -5606, -5758, -5912, -6068, -6224, -6383, -6543, 
    -6704, -6867, -7032, -7198, -7365, -7533, -7703, -7874, -8047, -8221, -8395, -8572, 
    -8749, -8927, -9107, -9288, -9469, -9652, -9836, -10021, -10207, -10393, -10581, -10769, 
    -10959, -11149, -11340, -11531, -11724, -11917, -12111, -12305, -12500, -12696, -12892, -13089, 
    -13286, -13483, -13682, -13880, -14079, -14278, -14478, -14678, -14878, -15078, -15278, -15479, 
    -15680, -15881, -16082, -16283, -16484, -16685, -16886, -17087, -17288, -17489, -17689, -17889, 
    -18089, -18289, -18489, -18688, -18887, -19085, -19284, -19481, -19678, -19875, -20071, -20267, 
    -20462, -20656, -20850, -21043, -21236, -21427, -21618, -21808, -21998, -22186, -22374, -22560, 
    -22746, -22931, -23115, -23298, -23479, -23660, -23840, -24018, -24195, -24372, -24546, -24720, 
    -24893, -25064, -25234, -25402, -25569, -25735, -25900, -26063, -26224, -26384, -26543, -26699, 
    -26855, -27009, -27161, -27312, -27461, -27608, -27754, -27897, -28040, -28180, -28319, -28456, 
    -28591, -28724, -28855, -28984, -29112, -29238, -29361, -29483, -29603, -29721, -29836, -29950, 
    -30062, -30172, -30279, -30385, -30488, -30589, -30688, -30785, -30880, -30973, -31063, -31151, 
    -31237, -31321, -31402, -31482, -31559, -31633, -31706, -31776, -31843, -31909, -31972, -32033, 
    -32091, -32147, -32201, -32252, -32301, -32347, -32391, -32433, -32472, -32509, -32543, -32575, 
    -32605, -32632, -32656, -32678, -32698, -32715, -32730, -32743, -32752, -32760, -32765, -32767, 
    -32767, -32765, -32760, -32752, -32743, -32730, -32715, -32698, -32678, -32656, -32632, -32605, 
    -32575, -32543, -32509, -32472, -32433, -32391, -32347, -32301, -32252, -32201, -32147, -32091, 
    -32033, -31972, -31909, -31843, -31776, -31706, -31633, -31559, -31482, -31402, -31321, -31237, 
    -31151, -31063, -30973, -30880, -30785, -30688, -30589, -30488, -30385, -30279, -30172, -30062, 
    -29950, -29836, -29721, -29603, -29483, -29361, -29238, -29112, -28984, -28855, -28724, -28591, 
    -28456, -28319, -28180, -28040, -27897, -27754, -27608, -27461, -27312, -27161, -27009, -26855, 
    -26699, -26543, -26384, -26224, -26063, -25900, -25735, -25569, -25402, -25234, -25064, -24893, 
    -24720, -24546, -24372, -24195, -24018, -23840, -23660, -23479, -23298, -23115, -22931, -22746, 
    -22560, -22374, -22186, -21998, -21808, -21618, -21427, -21236, -21043, -20850, -20656, -20462, 
    -20267, -20071, -19875, -19678, -19481, -19284, -19085, -18887, -18688, -18489, -18289, -18089, 
    -17889, -17689, -17489, -17288, -17087, -16886, -16685, -16484, -16283, -16082, -15881, -15680, 
    -15479, -15278, -15078, -14878, -14678, -14478, -14278, -14079, -13880, -13682, -13483, -13286, 
    -13089, -12892, -12696, -12500, -12305, -12111, -11917, -11724, -11531, -11340, -11149, -10959, 
    -10769, -10581, -10393, -10207, -10021, -9836, -9652, -9469, -9288, -9107, -8927, -8749, 
    -8572, -8395, -8221, -8047, -7874, -7703, -7533, -7365, -7198, -7032, -6867, -6704, 
    -6543, -6383, -6224, -6068, -5912, -5758, -5606, -5455, -5306, -5159, -5013, -4870, 
    -4727, -4587, -4448, -4311, -4176, -4043, -3912, -3783, -3655, -3529, -3406, -3284, 
    -3164, -3046, -2931, -2817, -2705, -2595, -2488, -2382, -2279, -2178, -2079, -1982, 
    -1887, -1794, -1704, -1616, -1530, -1446, -1365, -1285, -1208, -1134, -1061, -991, 
    -924, -858, -795, -734, -676, -620, -566, -515, -466, -420, -376, -334, 
    -295, -258, -224, -192, -162, -135, -111, -89, -69, -52, -37, -24, 
    -15, -7, -2, 0>>

WaveTable2 ==
  <<100, 301, 502, 703, 904, 1105, 1306, 1507, 1708, 1909, 2109, 2310, 
    2510, 2711, 2911, 3111, 3311, 3511, 3711, 3911, 4110, 4310, 4509, 4708, 
    4907, 5106, 5304, 5503, 5701, 5898, 6096, 6294, 6491, 6688, 6884, 7081, 
    7277, 7473, 7669, 7864, 8059, 8254, 8448, 8642, 8836, 9029, 9223, 9415, 
    9608, 9800, 9991, 10183, 10374, 10564, 10754, 10944, 11133, 11322, 11511, 11699, 
    11886, 12073, 12260, 12446, 12632, 12817, 13002, 13186, 13370, 13554, 13736, 13919, 
    14100, 14282, 14462, 14642, 14822, 15001, 15180, 15357, 15535, 15712, 15888, 16063, 
    16238, 16413, 16586, 16759, 16932, 17104, 17275, 17445, 17615, 17784, 17953, 18121, 
    18288, 18454, 18620, 18785, 18950, 19113, 19276, 19439, 19600, 19761, 19921, 20080, 
    20239, 20396, 20553, 20709, 20865, 21020, 21173, 21326, 21479, 21630, 21781, 21931, 
    22080, 22228, 22375, 22521, 22667, 22812, 22956, 23099, 23241, 23382, 23523, 23662, 
    23801, 23939, 24075, 24211, 24346, 24480, 24614, 24746, 24877, 25008, 25137, 25266, 
    25393, 25520, 25645, 25770, 25894, 26016, 26138, 26259, 26379, 26498, 26615, 26732, 
    26848, 26963, 27076, 27189, 27301, 27411, 27521, 27630, 27737, 27844, 27949, 28054, 
    28157, 28259, 28361, 28461, 28560, 28658, 28755, 28851, 28946, 29039, 29132, 29223, 
    29314, 29403, 29491, 29578, 29664, 29749, 29833, 29915, 29997, 30077, 30156, 30235, 
    30312, 30387, 30462, 30535, 30608, 30679, 30749, 30818, 30886, 30952, 31018, 31082, 
    31145, 31207, 31268, 31327, 31386, 31443, 31499, 31554, 31607, 31660, 31711, 31761, 
    31810, 31857, 31904, 31949, 31993, 32036, 32078, 32118, 32157, 32195, 32232, 32268, 
    32302, 32335, 32367, 32398, 32427, 32456, 32483, 32509, 32533, 32557, 32579, 32600, 
    32619, 32638, 32655, 32671, 32686, 32700, 32712, 32723, 32733, 32741, 32749, 32755, 
    32760, 32764, 32766, 32767, 32767, 32766, 32764, 32760, 32755, 32749, 32741, 32733, 
    32723, 32712, 32700, 32686, 32671, 32655, 32638, 32619, 32600, 32579, 32557, 32533, 
    32509, 32483, 32456, 32427, 32398, 32367, 32335, 32302, 32268, 32232, 32195, 32157, 
    32118, 32078, 32036, 31993, 31949, 31904, 31857, 31810, 31761, 31711, 31660, 31607, 
    31554, 31499, 31443, 31386, 31327, 31268, 31207, 31145, 31082, 31018, 30952, 30886, 
    30818, 30749, 30679, 30608, 30535, 30462, 30387, 30312, 30235, 30156, 30077, 29997, 
    29915, 29833, 29749, 29664, 29578, 29491, 29403, 29314, 29223, 29132, 29039, 28946, 
    28851, 28755, 28658, 28560, 28461, 28361, 28259, 28157, 28054, 27949, 27844, 27737, 
    27630, 27521, 27411, 27301, 27189, 27076, 26963, 26848, 26732, 26615, 26498, 26379, 
    26259, 26138, 26016, 25894, 25770, 25645, 25520, 25393, 25266, 25137, 25008, 24877, 
    24746, 24614, 24480, 24346, 24211, 24075, 23939, 23801, 23662, 23523, 23382, 23241, 
    23099, 22956, 22812, 22667, 22521, 22375, 22228, 22080, 21931, 21781, 21630, 21479, 
    21326, 21173, 21020, 20865, 20709, 20553, 20396, 20239, 20080, 19921, 19761, 19600, 
    19439, 19276, 19113, 18950, 18785, 18620, 18454, 18288, 18121, 17953, 17784, 17615, 
    17445, 17275, 17104, 16932, 16759, 16586, 16413, 16238, 16063, 15888, 15712, 15535, 
    15357, 15180, 15001, 14822, 14642, 14462, 14282, 14100, 13919, 13736, 13554, 13370, 
    13186, 13002, 12817, 12632, 12446, 12260, 12073, 11886, 11699, 11511, 11322, 11133, 
    10944, 10754, 10564, 10374, 10183, 9991, 9800, 9608, 9415, 9223, 9029, 8836, 
    8642, 8448, 8254, 8059, 7864, 7669, 7473, 7277, 7081, 6884, 6688, 6491, 
    6294, 6096, 5898, 5701, 5503, 5304, 5106, 4907, 4708, 4509, 4310, 4110, 
    3911, 3711, 3511, 3311, 3111, 2911, 2711, 2510, 2310, 2109, 1909, 1708, 
    1507, 1306, 1105, 904, 703, 502, 301, 100, 100, 301, 502, 703, 
    904, 1105, 1306, 1507, 1708, 1909, 2109, 2310, 2510, 2711, 2911, 3111, 
    3311, 3511, 3711, 3911, 4110, 4310, 4509, 4708, 4907, 5106, 5304, 5503, 
    5701, 5898, 6096, 6294, 6491, 6688, 6884, 7081, 7277, 7473, 7669, 7864, 
    8059, 8254, 8448, 8642, 8836, 9029, 9223, 9415, 9608, 9800, 9991, 10183, 
    10374, 10564, 10754, 10944, 11133, 11322, 11511, 11699, 11886, 12073, 12260, 12446, 
    12632, 12817, 13002, 13186, 13370, 13554, 13736, 13919, 14100, 14282, 14462, 14642, 
    14822, 15001, 15180, 15357, 15535, 15712, 15888, 16063, 16238, 16413, 16586, 16759, 
    16932, 17104, 17275, 17445, 17615, 17784, 17953, 18121, 18288, 18454, 18620, 18785, 
    18950, 19113, 19276, 19439, 19600, 19761, 19921, 20080, 20239, 20396, 20553, 20709, 
    20865, 21020, 21173, 21326, 21479, 21630, 21781, 21931, 22080, 22228, 22375, 22521, 
    22667, 22812, 22956, 23099, 23241, 23382, 23523, 23662, 23801, 23939, 24075, 24211, 
    24346, 24480, 24614, 24746, 24877, 25008, 25137, 25266, 25393, 25520, 25645, 25770, 
    25894, 26016, 26138, 26259, 26379, 26498, 26615, 26732, 26848, 26963, 27076, 27189, 
    27301, 27411, 27521, 27630, 27737, 27844, 27949, 28054, 28157, 28259, 28361, 28461, 
    28560, 28658, 28755, 28851, 28946, 29039, 29132, 29223, 29314, 29403, 29491, 29578, 
    29664, 29749, 29833, 29915, 29997, 30077, 30156, 30235, 30312, 30387, 30462, 30535, 
    30608, 30679, 30749, 30818, 30886, 30952, 31018, 31082, 31145, 31207, 31268, 31327, 
    31386, 31443, 31499, 31554, 31607, 31660, 31711, 31761, 31810, 31857, 31904, 31949, 
    31993, 32036, 32078, 32118, 32157, 32195, 32232, 32268, 32302, 32335, 32367, 32398, 
    32427, 32456, 32483, 32509, 32533, 32557, 32579, 32600, 32619, 32638, 32655, 32671, 
    32686, 32700, 32712, 32723, 32733, 32741, 32749, 32755, 32760, 32764, 32766, 32767, 
    32767, 32766, 32764, 32760, 32755, 32749, 32741, 32733, 32723, 32712, 32700, 32686, 
    32671, 32655, 32638, 32619, 32600, 32579, 32557, 32533, 32509, 32483, 32456, 32427, 
    32398, 32367, 32335, 32302, 32268, 32232, 32195, 32157, 32118, 32078, 32036, 31993, 
    31949, 31904, 31857, 31810, 31761, 31711, 31660, 31607, 31554, 31499, 31443, 31386, 
    31327, 31268, 31207, 31145, 31082, 31018, 30952, 30886, 30818, 30749, 30679, 30608, 
    30535, 30462, 30387, 30312, 30235, 30156, 30077, 29997, 29915, 29833, 29749, 29664, 
    29578, 29491, 29403, 29314, 29223, 29132, 29039, 28946, 28851, 28755, 28658, 28560, 
    28461, 28361, 28259, 28157, 28054, 27949, 27844, 27737, 27630, 27521, 27411, 27301, 
    27189, 27076, 26963, 26848, 26732, 26615, 26498, 26379, 26259, 26138, 26016, 25894, 
    25770, 25645, 25520, 25393, 25266, 25137, 25008, 24877, 24746, 24614, 24480, 24346, 
    24211, 24075, 23939, 23801, 23662, 23523, 23382, 23241, 23099, 22956, 22812, 22667, 
    22521, 22375, 22228, 22080, 21931, 21781, 21630, 21479, 21326, 21173, 21020, 20865, 
    20709, 20553, 20396, 20239, 20080, 19921, 19761, 19600, 19439, 19276, 19113, 18950, 
    18785, 18620, 18454, 18288, 18121, 17953, 17784, 17615, 17445, 17275, 17104, 16932, 
    16759, 16586, 16413, 16238, 16063, 15888, 15712, 15535, 15357, 15180, 15001, 14822, 
    14642, 14462, 14282, 14100, 13919, 13736, 13554, 13370, 13186, 13002, 12817, 12632, 
    12446, 12260, 12073, 11886, 11699, 11511, 11322, 11133, 10944, 10754, 10564, 10374, 
    10183, 9991, 9800, 9608, 9415, 9223, 9029, 8836, 8642, 8448, 8254, 8059, 
    7864, 7669, 7473, 7277, 7081, 6884, 6688, 6491, 6294, 6096, 5898, 5701, 
    5503, 5304, 5106, 4907, 4708, 4509, 4310, 4110, 3911, 3711, 3511, 3311, 
    3111, 2911, 2711, 2510, 2310, 2109, 1909, 1708, 1507, 1306, 1105, 904, 
    703, 502, 301, 100>>

WaveTable3 ==
  <<100, 301, 502, 703, 904, 1105, 1306, 1507, 1708, 1909, 2109, 2310, 
    2510, 2711, 2911, 3111, 3311, 3511, 3711, 3911, 4110, 4310, 4509, 4708, 
    4907, 5106, 5304, 5503, 5701, 5898, 6096, 6294, 6491, 6688, 6884, 7081, 
    7277, 7473, 7669, 7864, 8059, 8254, 8448, 8642, 8836, 9029, 9223, 9415, 
    9608, 9800, 9991, 10183, 10374, 10564, 10754, 10944, 11133, 11322, 11511, 11699, 
    11886, 12073, 12260, 12446, 12632, 12817, 13002, 13186, 13370, 13554, 13736, 13919, 
    14100, 14282, 14462, 14642, 14822, 15001, 15180, 15357, 15535, 15712, 15888, 16063, 
    16238, 16413, 16586, 16759, 16932, 17104, 17275, 17445, 17615, 17784, 17953, 18121, 
    18288, 18454, 18620, 18785, 18950, 19113, 19276, 19439, 19600, 19761, 19921, 20080, 
    20239, 20396, 20553, 20709, 20865, 21020, 21173, 21326, 21479, 21630, 21781, 21931, 
    22080, 22228, 22375, 22521, 22667, 22812, 22956, 23099, 23241, 23382, 23523, 23662, 
    23801, 23939, 24075, 24211, 24346, 24480, 24614, 24746, 24877, 25008, 25137, 25266, 
    25393, 25520, 25645, 25770, 25894, 26016, 26138, 26259, 26379, 26498, 26615, 26732, 
    26848, 26963, 27076, 27189, 27301, 27411, 27521, 27630, 27737, 27844, 27949, 28054, 
    28157, 28259, 28361, 28461, 28560, 28658, 28755, 28851, 28946, 29039, 29132, 29223, 
    29314, 29403, 29491, 29578, 29664, 29749, 29833, 29915, 29997, 30077, 30156, 30235, 
    30312, 30387, 30462, 30535, 30608, 30679, 30749, 30818, 30886, 30952, 31018, 31082, 
    31145, 31207, 31268, 31327, 31386, 31443, 31499, 31554, 31607, 31660, 31711, 31761, 
    31810, 31857, 31904, 31949, 31993, 32036, 32078, 32118, 32157, 32195, 32232, 32268, 
    32302, 32335, 32367, 32398, 32427, 32456, 32483, 32509, 32533, 32557, 32579, 32600, 
    32619, 32638, 32655, 32671, 32686, 32700, 32712, 32723, 32733, 32741, 32749, 32755, 
    32760, 32764, 32766, 32767, 32767, 32766, 32764, 32760, 32755, 32749, 32741, 32733, 
    32723, 32712, 32700, 32686, 32671, 32655, 32638, 32619, 32600, 32579, 32557, 32533, 
    32509, 32483, 32456, 32427, 32398, 32367, 32335, 32302, 32268, 32232, 32195, 32157, 
    32118, 32078, 32036, 31993, 31949, 31904, 31857, 31810, 31761, 31711, 31660, 31607, 
    31554, 31499, 31443, 31386, 31327, 31268, 31207, 31145, 31082, 31018, 30952, 30886, 
    30818, 30749, 30679, 30608, 30535, 30462, 30387, 30312, 30235, 30156, 30077, 29997, 
    29915, 29833, 29749, 29664, 29578, 29491, 29403, 29314, 29223, 29132, 29039, 28946, 
    28851, 28755, 28658, 28560, 28461, 28361, 28259, 28157, 28054, 27949, 27844, 27737, 
    27630, 27521, 27411, 27301, 27189, 27076, 26963, 26848, 26732, 26615, 26498, 26379, 
    26259, 26138, 26016, 25894, 25770, 25645, 25520, 25393, 25266, 25137, 25008, 24877, 
    24746, 24614, 24480, 24346, 24211, 24075, 23939, 23801, 23662, 23523, 23382, 23241, 
    23099, 22956, 22812, 22667, 22521, 22375, 22228, 22080, 21931, 21781, 21630, 21479, 
    21326, 21173, 21020, 20865, 20709, 20553, 20396, 20239, 20080, 19921, 19761, 19600, 
    19439, 19276, 19113, 18950, 18785, 18620, 18454, 18288, 18121, 17953, 17784, 17615, 
    17445, 17275, 17104, 16932, 16759, 16586, 16413, 16238, 16063, 15888, 15712, 15535, 
    15357, 15180, 15001, 14822, 14642, 14462, 14282, 14100, 13919, 13736, 13554, 13370, 
    13186, 13002, 12817, 12632, 12446, 12260, 12073, 11886, 11699, 11511, 11322, 11133, 
    10944, 10754, 10564, 10374, 10183, 9991, 9800, 9608, 9415, 9223, 9029, 8836, 
    8642, 8448, 8254, 8059, 7864, 7669, 7473, 7277, 7081, 6884, 6688, 6491, 
    6294, 6096, 5898, 5701, 5503, 5304, 5106, 4907, 4708, 4509, 4310, 4110, 
    3911, 3711, 3511, 3311, 3111, 2911, 2711, 2510, 2310, 2109, 1909, 1708, 
    1507, 1306, 1105, 904, 703, 502, 301, 100, 0, 0, 0, 0, 
    0, 0, 0, 0, 0, 0, 0, 0, 0, 0, 0, 0, 
    0, 0, 0, 0, 0, 0, 0, 0, 0, 0, 0, 0, 
    0, 0, 0, 0, 0, 0, 0, 0, 0, 0, 0, 0, 
    0, 0, 0, 0, 0, 0, 0, 0, 0, 0, 0, 0, 
    0, 0, 0, 0, 0, 0, 0, 0, 0, 0, 0, 0, 
    0, 0, 0, 0, 0, 0, 0, 0, 0, 0, 0, 0, 
    0, 0, 0, 0, 0, 0, 0, 0, 0, 0, 0, 0, 
    0, 0, 0, 0, 0, 0, 0, 0, 0, 0, 0, 0, 
    0, 0, 0, 0, 0, 0, 0, 0, 0, 0, 0, 0, 
    0, 0, 0, 0, 0, 0, 0, 0, 0, 0, 0, 0, 
    0, 0, 0, 0, 0, 0, 0, 0, 0, 0, 0, 0, 
    0, 0, 0, 0, 0, 0, 0, 0, 0, 0, 0, 0, 
    0, 0, 0, 0, 0, 0, 0, 0, 0, 0, 0, 0, 
    0, 0, 0, 0, 0, 0, 0, 0, 0, 0, 0, 0, 
    0, 0, 0, 0, 0, 0, 0, 0, 0, 0, 0, 0, 
    0, 0, 0, 0, 0, 0, 0, 0, 0, 0, 0, 0, 
    0, 0, 0, 0, 0, 0, 0, 0, 0, 0, 0, 0, 
    0, 0, 0, 0, 0, 0, 0, 0, 0, 0, 0, 0, 
    0, 0, 0, 0, 0, 0, 0, 0, 0, 0, 0, 0, 
    0, 0, 0, 0, 0, 0, 0, 0, 0, 0, 0, 0, 
    0, 0, 0, 0, 0, 0, 0, 0, 0, 0, 0, 0, 
    0, 0, 0, 0, 0, 0, 0, 0, 0, 0, 0, 0, 
    0, 0, 0, 0, 0, 0, 0, 0, 0, 0, 0, 0, 
    0, 0, 0, 0, 0, 0, 0, 0, 0, 0, 0, 0, 
    0, 0, 0, 0, 0, 0, 0, 0, 0, 0, 0, 0, 
    0, 0, 0, 0, 0, 0, 0, 0, 0, 0, 0, 0, 
    0, 0, 0, 0, 0, 0, 0, 0, 0, 0, 0, 0, 
    0, 0, 0, 0, 0, 0, 0, 0, 0, 0, 0, 0, 
    0, 0, 0, 0, 0, 0, 0, 0, 0, 0, 0, 0, 
    0, 0, 0, 0, 0, 0, 0, 0, 0, 0, 0, 0, 
    0, 0, 0, 0, 0, 0, 0, 0, 0, 0, 0, 0, 
    0, 0, 0, 0, 0, 0, 0, 0, 0, 0, 0, 0, 
    0, 0, 0, 0, 0, 0, 0, 0, 0, 0, 0, 0, 
    0, 0, 0, 0, 0, 0, 0, 0, 0, 0, 0, 0, 
    0, 0, 0, 0, 0, 0, 0, 0, 0, 0, 0, 0, 
    0, 0, 0, 0, 0, 0, 0, 0, 0, 0, 0, 0, 
    0, 0, 0, 0, 0, 0, 0, 0, 0, 0, 0, 0, 
    0, 0, 0, 0, 0, 0, 0, 0, 0, 0, 0, 0, 
    0, 0, 0, 0, 0, 0, 0, 0, 0, 0, 0, 0, 
    0, 0, 0, 0, 0, 0, 0, 0, 0, 0, 0, 0, 
    0, 0, 0, 0, 0, 0, 0, 0, 0, 0, 0, 0, 
    0, 0, 0, 0, 0, 0, 0, 0, 0, 0, 0, 0, 
    0, 0, 0, 0>>

WaveTable4 ==
  <<100, 502, 904, 1306, 1708, 2109, 2510, 2911, 3311, 3711, 4110, 4509, 
    4907, 5304, 5701, 6096, 6491, 6884, 7277, 7669, 8059, 8448, 8836, 9223, 
    9608, 9991, 10374, 10754, 11133, 11511, 11886, 12260, 12632, 13002, 13370, 13736, 
    14100, 14462, 14822, 15180, 15535, 15888, 16238, 16586, 16932, 17275, 17615, 17953, 
    18288, 18620, 18950, 19276, 19600, 19921, 20239, 20553, 20865, 21173, 21479, 21781, 
    22080, 22375, 22667, 22956, 23241, 23523, 23801, 24075, 24346, 24614, 24877, 25137, 
    25393, 25645, 25894, 26138, 26379, 26615, 26848, 27076, 27301, 27521, 27737, 27949, 
    28157, 28361, 28560, 28755, 28946, 29132, 29314, 29491, 29664, 29833, 29997, 30156, 
    30312, 30462, 30608, 30749, 30886, 31018, 31145, 31268, 31386, 31499, 31607, 31711, 
    31810, 31904, 31993, 32078, 32157, 32232, 32302, 32367, 32427, 32483, 32533, 32579, 
    32619, 32655, 32686, 32712, 32733, 32749, 32760, 32766, 32767, 32764, 32755, 32741, 
    32723, 32700, 32671, 32638, 32600, 32557, 32509, 32456, 32398, 32335, 32268, 32195, 
    32118, 32036, 31949, 31857, 31761, 31660, 31554, 31443, 31327, 31207, 31082, 30952, 
    30818, 30679, 30535, 30387, 30235, 30077, 29915, 29749, 29578, 29403, 29223, 29039, 
    28851, 28658, 28461, 28259, 28054, 27844, 27630, 27411, 27189, 26963, 26732, 26498, 
    26259, 26016, 25770, 25520, 25266, 25008, 24746, 24480, 24211, 23939, 23662, 23382, 
    23099, 22812, 22521, 22228, 21931, 21630, 21326, 21020, 20709, 20396, 20080, 19761, 
    19439, 19113, 18785, 18454, 18121, 17784, 17445, 17104, 16759, 16413, 16063, 15712, 
    15357, 15001, 14642, 14282, 13919, 13554, 13186, 12817, 12446, 12073, 11699, 11322, 
    10944, 10564, 10183, 9800, 9415, 9029, 8642, 8254, 7864, 7473, 7081, 6688, 
    6294, 5898, 5503, 5106, 4708, 4310, 3911, 3511, 3111, 2711, 2310, 1909, 
    1507, 1105, 703, 301, -100, -502, -904, -1306, -1708, -2109, -2510, -2911, 
    -3311, -3711, -4110, -4509, -4907, -5304, -5701, -6096, -6491, -6884, -7277, -7669, 
    -8059, -8448, -8836, -9223, -9608, -9991, -10374, -10754, -11133, -11511, -11886, -12260, 
    -12632, -13002, -13370, -13736, -14100, -14462, -14822, -15180, -15535, -15888, -16238, -16586, 
    -16932, -17275, -17615, -17953, -18288, -18620, -18950, -19276, -19600, -19921, -20239, -20553, 
    -20865, -21173, -21479, -21781, -22080, -22375, -22667, -22956, -23241, -23523, -23801, -24075, 
    -24346, -24614, -24877, -25137, -25393, -25645, -25894, -26138, -26379, -26615, -26848, -27076, 
    -27301, -27521, -27737, -27949, -28157, -28361, -28560, -28755, -28946, -29132, -29314, -29491, 
    -29664, -29833, -29997, -30156, -30312, -30462, -30608, -30749, -30886, -31018, -31145, -31268, 
    -31386, -31499, -31607, -31711, -31810, -31904, -31993, -32078, -32157, -32232, -32302, -32367, 
    -32427, -32483, -32533, -32579, -32619, -32655, -32686, -32712, -32733, -32749, -32760, -32766, 
    -32767, -32764, -32755, -32741, -32723, -32700, -32671, -32638, -32600, -32557, -32509, -32456, 
    -32398, -32335, -32268, -32195, -32118, -32036, -31949, -31857, -31761, -31660, -31554, -31443, 
    -31327, -31207, -31082, -30952, -30818, -30679, -30535, -30387, -30235, -30077, -29915, -29749, 
    -29578, -29403, -29223, -29039, -28851, -28658, -28461, -28259, -28054, -27844, -27630, -27411, 
    -27189, -26963, -26732, -26498, -26259, -26016, -25770, -25520, -25266, -25008, -24746, -24480, 
    -24211, -23939, -23662, -23382, -23099, -22812, -22521, -22228, -21931, -21630, -21326, -21020, 
    -20709, -20396, -20080, -19761, -19439, -19113, -18785, -18454, -18121, -17784, -17445, -17104, 
    -16759, -16413, -16063, -15712, -15357, -15001, -14642, -14282, -13919, -13554, -13186, -12817, 
    -12446, -12073, -11699, -11322, -10944, -10564, -10183, -9800, -9415, -9029, -8642, -8254, 
    -7864, -7473, -7081, -6688, -6294, -5898, -5503, -5106, -4708, -4310, -3911, -3511, 
    -3111, -2711, -2310, -1909, -1507, -1105, -703, -301, 0, 0, 0, 0, 
    0, 0, 0, 0, 0, 0, 0, 0, 0, 0, 0, 0, 
    0, 0, 0, 0, 0, 0, 0, 0, 0, 0, 0, 0, 
    0, 0, 0, 0, 0, 0, 0, 0, 0, 0, 0, 0, 
    0, 0, 0, 0, 0, 0, 0, 0, 0, 0, 0, 0, 
    0, 0, 0, 0, 0, 0, 0, 0, 0, 0, 0, 0, 
    0, 0, 0, 0, 0, 0, 0, 0, 0, 0, 0, 0, 
    0, 0, 0, 0, 0, 0, 0, 0, 0, 0, 0, 0, 
    0, 0, 0, 0, 0, 0, 0, 0, 0, 0, 0, 0, 
    0, 0, 0, 0, 0, 0, 0, 0, 0, 0, 0, 0, 
    0, 0, 0, 0, 0, 0, 0, 0, 0, 0, 0, 0, 
    0, 0, 0, 0, 0, 0, 0, 0, 0, 0, 0, 0, 
    0, 0, 0, 0, 0, 0, 0, 0, 0, 0, 0, 0, 
    0, 0, 0, 0, 0, 0, 0, 0, 0, 0, 0, 0, 
    0, 0, 0, 0, 0, 0, 0, 0, 0, 0, 0, 0, 
    0, 0, 0, 0, 0, 0, 0, 0, 0, 0, 0, 0, 
    0, 0, 0, 0, 0, 0, 0, 0, 0, 0, 0, 0, 
    0, 0, 0, 0, 0, 0, 0, 0, 0, 0, 0, 0, 
    0, 0, 0, 0, 0, 0, 0, 0, 0, 0, 0, 0, 
    0, 0, 0, 0, 0, 0, 0, 0, 0, 0, 0, 0, 
    0, 0, 0, 0, 0, 0, 0, 0, 0, 0, 0, 0, 
    0, 0, 0, 0, 0, 0, 0, 0, 0, 0, 0, 0, 
    0, 0, 0, 0, 0, 0, 0, 0, 0, 0, 0, 0, 
    0, 0, 0, 0, 0, 0, 0, 0, 0, 0, 0, 0, 
    0, 0, 0, 0, 0, 0, 0, 0, 0, 0, 0, 0, 
    0, 0, 0, 0, 0, 0, 0, 0, 0, 0, 0, 0, 
    0, 0, 0, 0, 0, 0, 0, 0, 0, 0, 0, 0, 
    0, 0, 0, 0, 0, 0, 0, 0, 0, 0, 0, 0, 
    0, 0, 0, 0, 0, 0, 0, 0, 0, 0, 0, 0, 
    0, 0, 0, 0, 0, 0, 0, 0, 0, 0, 0, 0, 
    0, 0, 0, 0, 0, 0, 0, 0, 0, 0, 0, 0, 
    0, 0, 0, 0, 0, 0, 0, 0, 0, 0, 0, 0, 
    0, 0, 0, 0, 0, 0, 0, 0, 0, 0, 0, 0, 
    0, 0, 0, 0, 0, 0, 0, 0, 0, 0, 0, 0, 
    0, 0, 0, 0, 0, 0, 0, 0, 0, 0, 0, 0, 
    0, 0, 0, 0, 0, 0, 0, 0, 0, 0, 0, 0, 
    0, 0, 0, 0, 0, 0, 0, 0, 0, 0, 0, 0, 
    0, 0, 0, 0, 0, 0, 0, 0, 0, 0, 0, 0, 
    0, 0, 0, 0, 0, 0, 0, 0, 0, 0, 0, 0, 
    0, 0, 0, 0, 0, 0, 0, 0, 0, 0, 0, 0, 
    0, 0, 0, 0, 0, 0, 0, 0, 0, 0, 0, 0, 
    0, 0, 0, 0, 0, 0, 0, 0, 0, 0, 0, 0, 
    0, 0, 0, 0, 0, 0, 0, 0, 0, 0, 0, 0, 
    0, 0, 0, 0>>

WaveTable5 ==
  <<100, 502, 904, 1306, 1708, 2109, 2510, 2911, 3311, 3711, 4110, 4509, 
    4907, 5304, 5701, 6096, 6491, 6884, 7277, 7669, 8059, 8448, 8836, 9223, 
    9608, 9991, 10374, 10754, 11133, 11511, 11886, 12260, 12632, 13002, 13370, 13736, 
    14100, 14462, 14822, 15180, 15535, 15888, 16238, 16586, 16932, 17275, 17615, 17953, 
    18288, 18620, 18950, 19276, 19600, 19921, 20239, 20553, 20865, 21173, 21479, 21781, 
    22080, 22375, 22667, 22956, 23241, 23523, 23801, 24075, 24346, 24614, 24877, 25137, 
    25393, 25645, 25894, 26138, 26379, 26615, 26848, 27076, 27301, 27521, 27737, 27949, 
    28157, 28361, 28560, 28755, 28946, 29132, 29314, 29491, 29664, 29833, 29997, 30156, 
    30312, 30462, 30608, 30749, 30886, 31018, 31145, 31268, 31386, 31499, 31607, 31711, 
    31810, 31904, 31993, 32078, 32157, 32232, 32302, 32367, 32427, 32483, 32533, 32579, 
    32619, 32655, 32686, 32712, 32733, 32749, 32760, 32766, 32767, 32764, 32755, 32741, 
    32723, 32700, 32671, 32638, 32600, 32557, 32509, 32456, 32398, 32335, 32268, 32195, 
    32118, 32036, 31949, 31857, 31761, 31660, 31554, 31443, 31327, 31207, 31082, 30952, 
    30818, 30679, 30535, 30387, 30235, 30077, 29915, 29749, 29578, 29403, 29223, 29039, 
    28851, 28658, 28461, 28259, 28054, 27844, 27630, 27411, 27189, 26963, 26732, 26498, 
    26259, 26016, 25770, 25520, 25266, 25008, 24746, 24480, 24211, 23939, 23662, 23382, 
    23099, 22812, 22521, 22228, 21931, 21630, 21326, 21020, 20709, 20396, 20080, 19761, 
    19439, 19113, 18785, 18454, 18121, 17784, 17445, 17104, 16759, 16413, 16063, 15712, 
    15357, 15001, 14642, 14282, 13919, 13554, 13186, 12817, 12446, 12073, 11699, 11322, 
    10944, 10564, 10183, 9800, 9415, 9029, 8642, 8254, 7864, 7473, 7081, 6688, 
    6294, 5898, 5503, 5106, 4708, 4310, 3911, 3511, 3111, 2711, 2310, 1909, 
    1507, 1105, 703, 301, 100, 502, 904, 1306, 1708, 2109, 2510, 2911, 
    3311, 3711, 4110, 4509, 4907, 5304, 5701, 6096, 6491, 6884, 7277, 7669, 
    8059, 8448, 8836, 9223, 9608, 9991, 10374, 10754, 11133, 11511, 11886, 12260, 
    12632, 13002, 13370, 13736, 14100, 14462, 14822, 15180, 15535, 15888, 16238, 16586, 
    16932, 17275, 17615, 17953, 18288, 18620, 18950, 19276, 19600, 19921, 20239, 20553, 
    20865, 21173, 21479, 21781, 22080, 22375, 22667, 22956, 23241, 23523, 23801, 24075, 
    24346, 24614, 24877, 25137, 25393, 25645, 25894, 26138, 26379, 26615, 26848, 27076, 
    27301, 27521, 27737, 27949, 28157, 28361, 28560, 28755, 28946, 29132, 29314, 29491, 
    29664, 29833, 29997, 30156, 30312, 30462, 30608, 30749, 30886, 31018, 31145, 31268, 
    31386, 31499, 31607, 31711, 31810, 31904, 31993, 32078, 32157, 32232, 32302, 32367, 
    32427, 32483, 32533, 32579, 32619, 32655, 32686, 32712, 32733, 32749, 32760, 32766, 
    32767, 32764, 32755, 32741, 32723, 32700, 32671, 32638, 32600, 32557, 32509, 32456, 
    32398, 32335, 32268, 32195, 32118, 32036, 31949, 31857, 31761, 31660, 31554, 31443, 
    31327, 31207, 31082, 30952, 30818, 30679, 30535, 30387, 30235, 30077, 29915, 29749, 
    29578, 29403, 29223, 29039, 28851, 28658, 28461, 28259, 28054, 27844, 27630, 27411, 
    27189, 26963, 26732, 26498, 26259, 26016, 25770, 25520, 25266, 25008, 24746, 24480, 
    24211, 23939, 23662, 23382, 23099, 22812, 22521, 22228, 21931, 21630, 21326, 21020, 
    20709, 20396, 20080, 19761, 19439, 19113, 18785, 18454, 18121, 17784, 17445, 17104, 
    16759, 16413, 16063, 15712, 15357, 15001, 14642, 14282, 13919, 13554, 13186, 12817, 
    12446, 12073, 11699, 11322, 10944, 10564, 10183, 9800, 9415, 9029, 8642, 8254, 
    7864, 7473, 7081, 6688, 6294, 5898, 5503, 5106, 4708, 4310, 3911, 3511, 
    3111, 2711, 2310, 1909, 1507, 1105, 703, 301, 0, 0, 0, 0, 
    0, 0, 0, 0, 0, 0, 0, 0, 0, 0, 0, 0, 
    0, 0, 0, 0, 0, 0, 0, 0, 0, 0, 0, 0, 
    0, 0, 0, 0, 0, 0, 0, 0, 0, 0, 0, 0, 
    0, 0, 0, 0, 0, 0, 0, 0, 0, 0, 0, 0, 
    0, 0, 0, 0, 0, 0, 0, 0, 0, 0, 0, 0, 
    0, 0, 0, 0, 0, 0, 0, 0, 0, 0, 0, 0, 
    0, 0, 0, 0, 0, 0, 0, 0, 0, 0, 0, 0, 
    0, 0, 0, 0, 0, 0, 0, 0, 0, 0, 0, 0, 
    0, 0, 0, 0, 0, 0, 0, 0, 0, 0, 0, 0, 
    0, 0, 0, 0, 0, 0, 0, 0, 0, 0, 0, 0, 
    0, 0, 0, 0, 0, 0, 0, 0, 0, 0, 0, 0, 
    0, 0, 0, 0, 0, 0, 0, 0, 0, 0, 0, 0, 
    0, 0, 0, 0, 0, 0, 0, 0, 0, 0, 0, 0, 
    0, 0, 0, 0, 0, 0, 0, 0, 0, 0, 0, 0, 
    0, 0, 0, 0, 0, 0, 0, 0, 0, 0, 0, 0, 
    0, 0, 0, 0, 0, 0, 0, 0, 0, 0, 0, 0, 
    0, 0, 0, 0, 0, 0, 0, 0, 0, 0, 0, 0, 
    0, 0, 0, 0, 0, 0, 0, 0, 0, 0, 0, 0, 
    0, 0, 0, 0, 0, 0, 0, 0, 0, 0, 0, 0, 
    0, 0, 0, 0, 0, 0, 0, 0, 0, 0, 0, 0, 
    0, 0, 0, 0, 0, 0, 0, 0, 0, 0, 0, 0, 
    0, 0, 0, 0, 0, 0, 0, 0, 0, 0, 0, 0, 
    0, 0, 0, 0, 0, 0, 0, 0, 0, 0, 0, 0, 
    0, 0, 0, 0, 0, 0, 0, 0, 0, 0, 0, 0, 
    0, 0, 0, 0, 0, 0, 0, 0, 0, 0, 0, 0, 
    0, 0, 0, 0, 0, 0, 0, 0, 0, 0, 0, 0, 
    0, 0, 0, 0, 0, 0, 0, 0, 0, 0, 0, 0, 
    0, 0, 0, 0, 0, 0, 0, 0, 0, 0, 0, 0, 
    0, 0, 0, 0, 0, 0, 0, 0, 0, 0, 0, 0, 
    0, 0, 0, 0, 0, 0, 0, 0, 0, 0, 0, 0, 
    0, 0, 0, 0, 0, 0, 0, 0, 0, 0, 0, 0, 
    0, 0, 0, 0, 0, 0, 0, 0, 0, 0, 0, 0, 
    0, 0, 0, 0, 0, 0, 0, 0, 0, 0, 0, 0, 
    0, 0, 0, 0, 0, 0, 0, 0, 0, 0, 0, 0, 
    0, 0, 0, 0, 0, 0, 0, 0, 0, 0, 0, 0, 
    0, 0, 0, 0, 0, 0, 0, 0, 0, 0, 0, 0, 
    0, 0, 0, 0, 0, 0, 0, 0, 0, 0, 0, 0, 
    0, 0, 0, 0, 0, 0, 0, 0, 0, 0, 0, 0, 
    0, 0, 0, 0, 0, 0, 0, 0, 0, 0, 0, 0, 
    0, 0, 0, 0, 0, 0, 0, 0, 0, 0, 0, 0, 
    0, 0, 0, 0, 0, 0, 0, 0, 0, 0, 0, 0, 
    0, 0, 0, 0, 0, 0, 0, 0, 0, 0, 0, 0, 
    0, 0, 0, 0>>

WaveTable6 ==
  <<-32768, -32768, -32768, -32768, -32768, -32768, -32768, -32768, -32768, -32768, -32768, -32768, 
    -32768, -32768, -32768, -32768, -32768, -32768, -32768, -32768, -32768, -32768, -32768, -32768, 
    -32768, -32768, -32768, -32768, -32768, -32768, -32768, -32768, -32768, -32768, -32768, -32768, 
    -32768, -32768, -32768, -32768, -32768, -32768, -32768, -32768, -32768, -32768, -32768, -32768, 
    -32768, -32768, -32768, -32768, -32768, -32768, -32768, -32768, -32768, -32768, -32768, -32768, 
    -32768, -32768, -32768, -32768, -32768, -32768, -32768, -32768, -32768, -32768, -32768, -32768, 
    -32768, -32768, -32768, -32768, -32768, -32768, -32768, -32768, -32768, -32768, -32768, -32768, 
    -32768, -32768, -32768, -32768, -32768, -32768, -32768, -32768, -32768, -32768, -32768, -32768, 
    -32768, -32768, -32768, -32768, -32768, -32768, -32768, -32768, -32768, -32768, -32768, -32768, 
    -32768, -32768, -32768, -32768, -32768, -32768, -32768, -32768, -32768, -32768, -32768, -32768, 
    -32768, -32768, -32768, -32768, -32768, -32768, -32768, -32768, -32768, -32768, -32768, -32768, 
    -32768, -32768, -32768, -32768, -32768, -32768, -32768, -32768, -32768, -32768, -32768, -32768, 
    -32768, -32768, -32768, -32768, -32768, -32768, -32768, -32768, -32768, -32768, -32768, -32768, 
    -32768, -32768, -32768, -32768, -32768, -32768, -32768, -32768, -32768, -32768, -32768, -32768, 
    -32768, -32768, -32768, -32768, -32768, -32768, -32768, -32768, -32768, -32768, -32768, -32768, 
    -32768, -32768, -32768, -32768, -32768, -32768, -32768, -32768, -32768, -32768, -32768, -32768, 
    -32768, -32768, -32768, -32768, -32768, -32768, -32768, -32768, -32768, -32768, -32768, -32768, 
    -32768, -32768, -32768, -32768, -32768, -32768, -32768, -32768, -32768, -32768, -32768, -32768, 
    -32768, -32768, -32768, -32768, -32768, -32768, -32768, -32768, -32768, -32768, -32768, -32768, 
    -32768, -32768, -32768, -32768, -32768, -32768, -32768, -32768, -32768, -32768, -32768, -32768, 
    -32768, -32768, -32768, -32768, -32768, -32768, -32768, -32768, -32768, -32768, -32768, -32768, 
    -32768, -32768, -32768, -32768, -32768, -32768, -32768, -32768, -32768, -32768, -32768, -32768, 
    -32768, -32768, -32768, -32768, -32768, -32768, -32768, -32768, -32768, -32768, -32768, -32768, 
    -32768, -32768, -32768, -32768, -32768, -32768, -32768, -32768, -32768, -32768, -32768, -32768, 
    -32768, -32768, -32768, -32768, -32768, -32768, -32768, -32768, -32768, -32768, -32768, -32768, 
    -32768, -32768, -32768, -32768, -32768, -32768, -32768, -32768, -32768, -32768, -32768, -32768, 
    -32768, -32768, -32768, -32768, -32768, -32768, -32768, -32768, -32768, -32768, -32768, -32768, 
    -32768, -32768, -32768, -32768, -32768, -32768, -32768, -32768, -32768, -32768, -32768, -32768, 
    -32768, -32768, -32768, -32768, -32768, -32768, -32768, -32768, -32768, -32768, -32768, -32768, 
    -32768, -32768, -32768, -32768, -32768, -32768, -32768, -32768, -32768, -32768, -32768, -32768, 
    -32768, -32768, -32768, -32768, -32768, -32768, -32768, -32768, -32768, -32768, -32768, -32768, 
    -32768, -32768, -32768, -32768, -32768, -32768, -32768, -32768, -32768, -32768, -32768, -32768, 
    -32768, -32768, -32768, -32768, -32768, -32768, -32768, -32768, -32768, -32768, -32768, -32768, 
    -32768, -32768, -32768, -32768, -32768, -32768, -32768, -32768, -32768, -32768, -32768, -32768, 
    -32768, -32768, -32768, -32768, -32768, -32768, -32768, -32768, -32768, -32768, -32768, -32768, 
    -32768, -32768, -32768, -32768, -32768, -32768, -32768, -32768, -32768, -32768, -32768, -32768, 
    -32768, -32768, -32768, -32768, -32768, -32768, -32768, -32768, -32768, -32768, -32768, -32768, 
    -32768, -32768, -32768, -32768, -32768, -32768, -32768, -32768, -32768, -32768, -32768, -32768, 
    -32768, -32768, -32768, -32768, -32768, -32768, -32768, -32768, -32768, -32768, -32768, -32768, 
    -32768, -32768, -32768, -32768, -32768, -32768, -32768, -32768, -32768, -32768, -32768, -32768, 
    -32768, -32768, -32768, -32768, -32768, -32768, -32768, -32768, -32768, -32768, -32768, -32768, 
    -32768, -32768, -32768, -32768, -32768, -32768, -32768, -32768, -32768, -32768, -32768, -32768, 
    -32768, -32768, -32768, -32768, -32768, -32768, -32768, -32768, -32768, -32768, -32768, -32768, 
    -32768, -32768, -32768, -32768, -32768, -32768, -32768, -32768, -32768, -32768, -32768, -32768, 
    -32768, -32768, -32768, -32768, -32768, -32768, -32768, -32768, -32768, -32768, -32768, -32768, 
    -32768, -32768, -32768, -32768, -32768, -32768, -32768, -32768, -32768, -32768, -32768, -32768, 
    -32768, -32768, -32768, -32768, -32768, -32768, -32768, -32768, -32768, -32768, -32768, -32768, 
    -32768, -32768, -32768, -32768, -32768, -32768, -32768, -32768, -32768, -32768, -32768, -32768, 
    -32768, -32768, -32768, -32768, -32768, -32768, -32768, -32768, -32768, -32768, -32768, -32768, 
    -32768, -32768, -32768, -32768, -32768, -32768, -32768, -32768, -32768, -32768, -32768, -32768, 
    -32768, -32768, -32768, -32768, -32768, -32768, -32768, -32768, -32768, -32768, -32768, -32768, 
    -32768, -32768, -32768, -32768, -32768, -32768, -32768, -32768, -32768, -32768, -32768, -32768, 
    -32768, -32768, -32768, -32768, -32768, -32768, -32768, -32768, -32768, -32768, -32768, -32768, 
    -32768, -32768, -32768, -32768, -32768, -32768, -32768, -32768, -32768, -32768, -32768, -32768, 
    -32768, -32768, -32768, -32768, -32768, -32768, -32768, -32768, -32768, -32768, -32768, -32768, 
    -32768, -32768, -32768, -32768, -32768, -32768, -32768, -32768, -32768, -32768, -32768, -32768, 
    -32768, -32768, -32768, -32768, -32768, -32768, -32768, -32768, -32768, -32768, -32768, -32768, 
    -32768, -32768, -32768, -32768, -32768, -32768, -32768, -32768, -32768, -32768, -32768, -32768, 
    -32768, -32768, -32768, -32768, -32768, -32768, -32768, -32768, -32768, -32768, -32768, -32768, 
    -32768, -32768, -32768, -32768, -32768, -32768, -32768, -32768, -32768, -32768, -32768, -32768, 
    -32768, -32768, -32768, -32768, -32768, -32768, -32768, -32768, -32768, -32768, -32768, -32768, 
    -32768, -32768, -32768, -32768, -32768, -32768, -32768, -32768, -32768, -32768, -32768, -32768, 
    -32768, -32768, -32768, -32768, -32768, -32768, -32768, -32768, -32768, -32768, -32768, -32768, 
    -32768, -32768, -32768, -32768, -32768, -32768, -32768, -32768, -32768, -32768, -32768, -32768, 
    -32768, -32768, -32768, -32768, -32768, -32768, -32768, -32768, -32768, -32768, -32768, -32768, 
    -32768, -32768, -32768, -32768, -32768, -32768, -32768, -32768, -32768, -32768, -32768, -32768, 
    -32768, -32768, -32768, -32768, -32768, -32768, -32768, -32768, -32768, -32768, -32768, -32768, 
    -32768, -32768, -32768, -32768, -32768, -32768, -32768, -32768, -32768, -32768, -32768, -32768, 
    -32768, -32768, -32768, -32768, -32768, -32768, -32768, -32768, -32768, -32768, -32768, -32768, 
    -32768, -32768, -32768, -32768, -32768, -32768, -32768, -32768, -32768, -32768, -32768, -32768, 
    -32768, -32768, -32768, -32768, -32768, -32768, -32768, -32768, -32768, -32768, -32768, -32768, 
    -32768, -32768, -32768, -32768, -32768, -32768, -32768, -32768, -32768, -32768, -32768, -32768, 
    -32768, -32768, -32768, -32768, -32768, -32768, -32768, -32768, -32768, -32768, -32768, -32768, 
    -32768, -32768, -32768, -32768, -32768, -32768, -32768, -32768, -32768, -32768, -32768, -32768, 
    -32768, -32768, -32768, -32768, -32768, -32768, -32768, -32768, -32768, -32768, -32768, -32768, 
    -32768, -32768, -32768, -32768, -32768, -32768, -32768, -32768, -32768, -32768, -32768, -32768, 
    -32768, -32768, -32768, -32768, -32768, -32768, -32768, -32768, -32768, -32768, -32768, -32768, 
    -32768, -32768, -32768, -32768, -32768, -32768, -32768, -32768, -32768, -32768, -32768, -32768, 
    -32768, -32768, -32768, -32768, -32768, -32768, -32768, -32768, -32768, -32768, -32768, -32768, 
    -32768, -32768, -32768, -32768, -32768, -32768, -32768, -32768, -32768, -32768, -32768, -32768, 
    -32768, -32768, -32768, -32768, -32768, -32768, -32768, -32768, -32768, -32768, -32768, -32768, 
    -32768, -32768, -32768, -32768, -32768, -32768, -32768, -32768, -32768, -32768, -32768, -32768, 
    -32768, -32768, -32768, -32768, -32768, -32768, -32768, -32768, -32768, -32768, -32768, -32768, 
    -32768, -32768, -32768, -32768, -32768, -32768, -32768, -32768, -32768, -32768, -32768, -32768, 
    -32768, -32768, -32768, -32768, -32768, -32768, -32768, -32768, -32768, -32768, -32768, -32768, 
    -32768, -32768, -32768, -32768>>

WaveTable7 ==
  <<0, 0, 0, 0, 0, 0, 0, 0, 0, 0, 0, 0, 
    0, 0, 0, 0, 0, 0, 0, 0, 0, 0, 0, 0, 
    0, 0, 0, 0, 0, 0, 0, 0, 0, 0, 0, 0, 
    0, 0, 0, 0, 0, 0, 0, 0, 0, 0, 0, 0, 
    0, 0, 0, 0, 0, 0, 0, 0, 0, 0, 0, 0, 
    0, 0, 0, 0, 0, 0, 0, 0, 0, 0, 0, 0, 
    0, 0, 0, 0, 0, 0, 0, 0, 0, 0, 0, 0, 
    0, 0, 0, 0, 0, 0, 0, 0, 0, 0, 0, 0, 
    0, 0, 0, 0, 0, 0, 0, 0, 0, 0, 0, 0, 
    0, 0, 0, 0, 0, 0, 0, 0, 0, 0, 0, 0, 
    0, 0, 0, 0, 0, 0, 0, 0, 0, 0, 0, 0, 
    0, 0, 0, 0, 0, 0, 0, 0, 0, 0, 0, 0, 
    0, 0, 0, 0, 0, 0, 0, 0, 0, 0, 0, 0, 
    0, 0, 0, 0, 0, 0, 0, 0, 0, 0, 0, 0, 
    0, 0, 0, 0, 0, 0, 0, 0, 0, 0, 0, 0, 
    0, 0, 0, 0, 0, 0, 0, 0, 0, 0, 0, 0, 
    0, 0, 0, 0, 0, 0, 0, 0, 0, 0, 0, 0, 
    0, 0, 0, 0, 0, 0, 0, 0, 0, 0, 0, 0, 
    0, 0, 0, 0, 0, 0, 0, 0, 0, 0, 0, 0, 
    0, 0, 0, 0, 0, 0, 0, 0, 0, 0, 0, 0, 
    0, 0, 0, 0, 0, 0, 0, 0, 0, 0, 0, 0, 
    0, 0, 0, 0, 0, 0, 0, 0, 0, 0, 0, 0, 
    0, 0, 0, 0, 0, 0, 0, 0, 0, 0, 0, 0, 
    0, 0, 0, 0, 0, 0, 0, 0, 0, 0, 0, 0, 
    0, 0, 0, 0, 0, 0, 0, 0, 0, 0, 0, 0, 
    0, 0, 0, 0, 0, 0, 0, 0, 0, 0, 0, 0, 
    0, 0, 0, 0, 0, 0, 0, 0, 0, 0, 0, 0, 
    0, 0, 0, 0, 0, 0, 0, 0, 0, 0, 0, 0, 
    0, 0, 0, 0, 0, 0, 0, 0, 0, 0, 0, 0, 
    0, 0, 0, 0, 0, 0, 0, 0, 0, 0, 0, 0, 
    0, 0, 0, 0, 0, 0, 0, 0, 0, 0, 0, 0, 
    0, 0, 0, 0, 0, 0, 0, 0, 0, 0, 0, 0, 
    0, 0, 0, 0, 0, 0, 0, 0, 0, 0, 0, 0, 
    0, 0, 0, 0, 0, 0, 0, 0, 0, 0, 0, 0, 
    0, 0, 0, 0, 0, 0, 0, 0, 0, 0, 0, 0, 
    0, 0, 0, 0, 0, 0, 0, 0, 0, 0, 0, 0, 
    0, 0, 0, 0, 0, 0, 0, 0, 0, 0, 0, 0, 
    0, 0, 0, 0, 0, 0, 0, 0, 0, 0, 0, 0, 
    0, 0, 0, 0, 0, 0, 0, 0, 0, 0, 0, 0, 
    0, 0, 0, 0, 0, 0, 0, 0, 0, 0, 0, 0, 
    0, 0, 0, 0, 0, 0, 0, 0, 0, 0, 0, 0, 
    0, 0, 0, 0, 0, 0, 0, 0, 0, 0, 0, 0, 
    0, 0, 0, 0, 0, 0, 0, 0, 0, 0, 0, 0, 
    0, 0, 0, 0, 0, 0, 0, 0, 0, 0, 0, 0, 
    0, 0, 0, 0, 0, 0, 0, 0, 0, 0, 0, 0, 
    0, 0, 0, 0, 0, 0, 0, 0, 0, 0, 0, 0, 
    0, 0, 0, 0, 0, 0, 0, 0, 0, 0, 0, 0, 
    0, 0, 0, 0, 0, 0, 0, 0, 0, 0, 0, 0, 
    0, 0, 0, 0, 0, 0, 0, 0, 0, 0, 0, 0, 
    0, 0, 0, 0, 0, 0, 0, 0, 0, 0, 0, 0, 
    0, 0, 0, 0, 0, 0, 0, 0, 0, 0, 0, 0, 
    0, 0, 0, 0, 0, 0, 0, 0, 0, 0, 0, 0, 
    0, 0, 0, 0, 0, 0, 0, 0, 0, 0, 0, 0, 
    0, 0, 0, 0, 0, 0, 0, 0, 0, 0, 0, 0, 
    0, 0, 0, 0, 0, 0, 0, 0, 0, 0, 0, 0, 
    0, 0, 0, 0, 0, 0, 0, 0, 0, 0, 0, 0, 
    0, 0, 0, 0, 0, 0, 0, 0, 0, 0, 0, 0, 
    0, 0, 0, 0, 0, 0, 0, 0, 0, 0, 0, 0, 
    0, 0, 0, 0, 0, 0, 0, 0, 0, 0, 0, 0, 
    0, 0, 0, 0, 0, 0, 0, 0, 0, 0, 0, 0, 
    0, 0, 0, 0, 0, 0, 0, 0, 0, 0, 0, 0, 
    0, 0, 0, 0, 0, 0, 0, 0, 0, 0, 0, 0, 
    0, 0, 0, 0, 0, 0, 0, 0, 0, 0, 0, 0, 
    0, 0, 0, 0, 0, 0, 0, 0, 0, 0, 0, 0, 
    0, 0, 0, 0, 0, 0, 0, 0, 0, 0, 0, 0, 
    0, 0, 0, 0, 0, 0, 0, 0, 0, 0, 0, 0, 
    0, 0, 0, 0, 0, 0, 0, 0, 0, 0, 0, 0, 
    0, 0, 0, 0, 0, 0, 0, 0, 0, 0, 0, 0, 
    0, 0, 0, 0, 0, 0, 0, 0, 0, 0, 0, 0, 
    0, 0, 0, 0, 0, 0, 0, 0, 0, 0, 0, 0, 
    0, 0, 0, 0, 0, 0, 0, 0, 0, 0, 0, 0, 
    0, 0, 0, 0, 0, 0, 0, 0, 0, 0, 0, 0, 
    0, 0, 0, 0, 0, 0, 0, 0, 0, 0, 0, 0, 
    0, 0, 0, 0, 0, 0, 0, 0, 0, 0, 0, 0, 
    0, 0, 0, 0, 0, 0, 0, 0, 0, 0, 0, 0, 
    0, 0, 0, 0, 0, 0, 0, 0, 0, 0, 0, 0, 
    0, 0, 0, 0, 0, 0, 0, 0, 0, 0, 0, 0, 
    0, 0, 0, 0, 0, 0, 0, 0, 0, 0, 0, 0, 
    0, 0, 0, 0, 0, 0, 0, 0, 0, 0, 0, 0, 
    0, 0, 0, 0, 0, 0, 0, 0, 0, 0, 0, 0, 
    0, 0, 0, 0, 0, 0, 0, 0, 0, 0, 0, 0, 
    0, 0, 0, 0, 0, 0, 0, 0, 0, 0, 0, 0, 
    0, 0, 0, 0, 0, 0, 0, 0, 0, 0, 0, 0, 
    0, 0, 0, 0, 0, 0, 0, 0, 0, 0, 0, 0, 
    0, 0, 0, 0, 0, 0, 0, 0, 0, 0, 0, 0, 
    0, 0, 0, 0>>

\* ------------------------------------------------------------------------
\* Chip state after device_start_ymf271 (calloc: every field zero)
\* ------------------------------------------------------------------------
ZeroSlot ==
  [ext_en |-> 0, ext_out |-> 0, lfoFreq |-> 0, lfowave |-> 0, pms |-> 0, ams |-> 0,
   detune |-> 0, multiple |-> 0, tl |-> 0, keyscale |-> 0, ar |-> 0,
   decay1rate |-> 0, decay2rate |-> 0, decay1lvl |-> 0, relrate |-> 0,
   block |-> 0, fns_hi |-> 0, fns |-> 0, feedback |-> 0, waveform |-> 0,
   accon |-> 0, algorithm |-> 0,
   ch0_level |-> 0, ch1_level |-> 0, ch2_level |-> 0, ch3_level |-> 0,
   startaddr |-> 0, loopaddr |-> 0, endaddr |-> 0, altloop |-> 0, fs |-> 0,
   srcnote |-> 0, srcb |-> 0,
   step |-> 0, stepptr |-> [i |-> 0, f |-> 0],
   active |-> 0, bits |-> 0,
   volume |-> 0, env_state |-> 0,
   env_attack_step |-> 0, env_decay1_step |-> 0, env_decay2_step |-> 0,
   env_release_step |-> 0,
   feedback_modulation0 |-> 0, feedback_modulation1 |-> 0,
   lfo_phase |-> 0, lfo_step |-> 0, lfo_amplitude |-> 0, lfo_phasemod |-> 0,
   loop_direction |-> 0]

ZeroGroup == [sync |-> 0, pfm |-> 0, Muted |-> 0]

\* ymf271_set_mute_mask: bit g of the mask mutes group g
ymf271_set_mute_mask(c, MuteMask) ==
  [c EXCEPT !.groups = [g \in Groups |-> [c.groups[g] EXCEPT !.Muted = Bits(MuteMask, g, 1)]]]

\* device_start_ymf271: the zeroed chip, no ROM, no group muted, no IRQ
\* handler (irq_handler is FALSE for NULL; irq_log lists the levels the
\* handler has been called with)
device_start_ymf271 ==
  ymf271_set_mute_mask(
    [slots |-> [n \in Slots |-> ZeroSlot],
     groups |-> [g \in Groups |-> ZeroGroup],
     regs_main |-> [r \in 0 .. 15 |-> 0],
     timerA |-> 0, timerB |-> 0,
     irqstate |-> 0, status |-> 0, end_status |-> 0, enable |-> 0,
     ext_address |-> 0, ext_rw |-> 0, ext_readlatch |-> 0, busy_flag |-> 0,
     irq_handler |-> FALSE, irq_log |-> << >>,
     mem_alloc |-> FALSE, mem_base |-> << >>, mem_size |-> 0], 0)

\* ------------------------------------------------------------------------
\* Key codes, envelope and LFO initialisation, phase step
\* ------------------------------------------------------------------------
get_internal_keycode(block, fns) ==
  LET n43 == IF fns < 1920 THEN 0 ELSE IF fns < 2304 THEN 1 ELSE IF fns < 2688 THEN 2 ELSE 3
  IN  ((block % 8) * 4) + n43

get_external_keycode(block, fns, srcb, srcnote) ==
  LET n43 == IF fns < 256 THEN 0 ELSE IF fns < 768 THEN 1 ELSE IF fns < 1280 THEN 2 ELSE 3
      keycode == ((srcb * 4) + srcnote) + (((block % 8) * 4) + n43)
  IN  IF keycode > 31 THEN 31 ELSE keycode

get_keyscaled_rate(rate, keycode, keyscale) ==
  LET newrate == rate + RKS_Table[keycode + 1][keyscale + 1]
  IN  IF newrate > 63 THEN 63 ELSE IF newrate < 0 THEN 0 ELSE newrate

init_envelope(slot) ==
  LET keycode == IF slot.waveform # 7
                 THEN get_internal_keycode(slot.block, slot.fns)
                 ELSE get_external_keycode(slot.block, slot.fns % 2048, slot.srcb, slot.srcnote)
      rateA  == get_keyscaled_rate(slot.ar * 2, keycode, slot.keyscale)
      rateD1 == get_keyscaled_rate(slot.decay1rate * 2, keycode, slot.keyscale)
      rateD2 == get_keyscaled_rate(slot.decay2rate * 2, keycode, slot.keyscale)
      rateR  == get_keyscaled_rate(slot.relrate * 4, keycode, slot.keyscale)
  IN  [slot EXCEPT
         !.env_attack_step  = AttackStepTable[rateA + 1],
         !.env_decay1_step  = Decay1StepTable[slot.decay1lvl + 1][rateD1 + 1],
         !.env_decay2_step  = DecayStepTable[rateD2 + 1],
         !.env_release_step = DecayStepTable[rateR + 1],
         !.volume = (255 - 160) * Pow2(ENV_VOLUME_SHIFT),
         !.env_state = ENV_ATTACK]

\* lut_alfo[wave][i]
lut_alfo(wave, i) ==
  CASE wave = 0 -> 0
    [] wave = 1 -> ALFO_MAX - ((i * ALFO_MAX) \div LFO_LENGTH)
    [] wave = 2 -> IF i < (LFO_LENGTH \div 2) THEN ALFO_MAX ELSE ALFO_MIN
    [] wave = 3 -> LET tri_wave == ((i % (LFO_LENGTH \div 2)) * ALFO_MAX) \div (LFO_LENGTH \div 2)
                   IN  IF i < (LFO_LENGTH \div 2) THEN ALFO_MAX - tri_wave ELSE tri_wave

\* lut_plfo[wave][pms][i] = 2^(cents[pms] * plfo[wave][i] / 1200), in units of
\* 1/65536.  The entries with a zero exponent (LFO wave 0, depth 0, or a zero
\* of the saw / triangle wave) are exactly 1.0; the others are irrational and
\* lie outside this model: no case matches and the evaluation fails.
lut_plfo(wave, pms, i) ==
  CASE wave = 0 \/ pms = 0 -> PhaseModOne
    [] wave = 1 /\ pms # 0 /\ (i % (LFO_LENGTH \div 2)) = 0 /\ i < (LFO_LENGTH \div 2) -> PhaseModOne
    [] wave = 3 /\ pms # 0 /\ i \in {0, 128} -> PhaseModOne

\* an LFO initialisation that lets the phase run on
init_lfo_keeps_phase(slot) ==
  [slot EXCEPT
     !.lfo_amplitude = lut_alfo(slot.lfowave, 0),
     !.lfo_phasemod = lut_plfo(slot.lfowave, slot.pms, 0),
     !.lfo_step = LfoStepTable[slot.lfoFreq + 1]]

init_lfo(slot) ==
  [slot EXCEPT
     !.lfo_phase = 0,
     !.lfo_amplitude = lut_alfo(slot.lfowave, 0),
     !.lfo_phasemod = lut_plfo(slot.lfowave, slot.pms, 0),
     !.lfo_step = LfoStepTable[slot.lfoFreq + 1]]

\* calculate_step: the double arithmetic is exact for a multiplier of 0.0 or
\* 1.0 (every factor is an integer or a power of two), and the cast to UINT32
\* truncates a non-negative value.
calculate_step(slot) ==
  IF slot.waveform = 7
  THEN LET n == 2 * (slot.fns + (IF Bits(slot.fns, 11, 1) = 0 THEN 2048 ELSE 0))
           st == ScalePow2(n * MultipleX2[slot.multiple + 1],
                           PowExp[slot.block + 1] - 1 - slot.fs - 3)
       IN  [slot EXCEPT !.step = IF slot.lfo_phasemod = PhaseModOne THEN st ELSE 0]
  ELSE LET keycode == get_internal_keycode(slot.block, slot.fns)
           detune_offset == lut_detune[slot.detune + 1][keycode + 1]
           fns_detuned == IF slot.fns + detune_offset < 0 THEN 0 ELSE slot.fns + detune_offset
           st == ScalePow2(2 * fns_detuned * MultipleX2[slot.multiple + 1],
                           PowExp[slot.block + 1] - 1 + SIN_BITS - 13)
       IN  [slot EXCEPT !.step = IF slot.lfo_phasemod = PhaseModOne THEN st ELSE 0]

\* calculate_status_end: only slots 0, 4, 8, ... own an end-status bit
\* an end flag indexed by the bank alone
calculate_status_end_bank_only(c, slotnum, state) ==
  IF slotnum % 4 # 0
  THEN c
  ELSE [c EXCEPT !.end_status = SetBits(c.end_status, slotnum \div 12, 1, state)]

calculate_status_end(c, slotnum, state) ==
  IF slotnum % 4 # 0
  THEN c
  ELSE LET subbit == slotnum \div 12
           bankbit == (slotnum % 12) \div 4
       IN  [c EXCEPT !.end_status = SetBits(c.end_status, subbit + bankbit * 4, 1, state)]

\* ------------------------------------------------------------------------
\* Register front-end
\* ------------------------------------------------------------------------
\* The block write_register runs on each other member slot `os' of a keyed-on
\* configuration: phase, loop direction, envelope, LFO, step, feedback memory
key_on_member(os) ==
  LET s1 == [os EXCEPT !.step = 0, !.stepptr = [i |-> 0, f |-> 0], !.loop_direction = 1]
      s2 == calculate_step(init_lfo(init_envelope(s1)))
  IN  [s2 EXCEPT !.feedback_modulation0 = 0, !.feedback_modulation1 = 0]

\* The banks, other than the written one, that a key-on of `bank' re-initialises
key_on_others(sync, bank) ==
  IF sync = 0 /\ bank = 0 THEN {1, 2, 3}
  ELSE IF sync = 1 THEN (IF bank = 0 THEN {2} ELSE IF bank = 1 THEN {3} ELSE {})
  ELSE IF sync = 2 /\ bank = 0 THEN {1, 2}
  ELSE {}

\* write_register, case 0x0 with bit 0 set: c1 is the chip once the written
\* slot is initialised and its end-status bit is cleared
key_on_rest(c1, groupnum, others) ==
  [c1 EXCEPT !.slots = [n \in Slots |->
     IF n % 12 = groupnum /\ (n \div 12) \in others
     THEN key_on_member(c1.slots[n])
     ELSE c1.slots[n]]]

key_on(c, slotnum) ==
  LET s1 == [c.slots[slotnum] EXCEPT !.step = 0, !.stepptr = [i |-> 0, f |-> 0],
                                     !.active = 1, !.loop_direction = 1]
      s2 == calculate_step(init_lfo(init_envelope(s1)))
      s3 == [s2 EXCEPT !.feedback_modulation0 = 0, !.feedback_modulation1 = 0]
  IN  key_on_rest(calculate_status_end([c EXCEPT !.slots[slotnum] = s3], slotnum, 0),
                  slotnum % 12,
                  key_on_others(c.groups[slotnum % 12].sync, slotnum \div 12))

write_register(c, slotnum, reg, data) ==
  LET slot == c.slots[slotnum]
  IN  CASE reg = 0 ->
             LET c1 == [c EXCEPT !.slots[slotnum].ext_en = Bits(data, 7, 1),
                                 !.slots[slotnum].ext_out = Bits(data, 3, 4)]
             IN  IF Bits(data, 0, 1) = 1
                 THEN key_on(c1, slotnum)
                 ELSE IF slot.active # 0
                      THEN [c1 EXCEPT !.slots[slotnum].env_state = ENV_RELEASE]
                      ELSE c1
        [] reg = 1 -> [c EXCEPT !.slots[slotnum].lfoFreq = data]
        [] reg = 2 -> [c EXCEPT !.slots[slotnum].lfowave = Bits(data, 0, 2),
                                !.slots[slotnum].pms = Bits(data, 3, 3),
                                !.slots[slotnum].ams = Bits(data, 6, 2)]
        [] reg = 3 -> [c EXCEPT !.slots[slotnum].multiple = Bits(data, 0, 4),
                                !.slots[slotnum].detune = Bits(data, 4, 3)]
        [] reg = 4 -> [c EXCEPT !.slots[slotnum].tl = Bits(data, 0, 7)]
        [] reg = 5 -> [c EXCEPT !.slots[slotnum].ar = Bits(data, 0, 5),
                                !.slots[slotnum].keyscale = Bits(data, 5, 2)]
        [] reg = 6 -> [c EXCEPT !.slots[slotnum].decay1rate = Bits(data, 0, 5)]
        [] reg = 7 -> [c EXCEPT !.slots[slotnum].decay2rate = Bits(data, 0, 5)]
        [] reg = 8 -> [c EXCEPT !.slots[slotnum].relrate = Bits(data, 0, 4),
                                !.slots[slotnum].decay1lvl = Bits(data, 4, 4)]
        [] reg = 9 -> [c EXCEPT !.slots[slotnum].fns = Bits(slot.fns_hi, 0, 4) * 256 + data,
                                !.slots[slotnum].block = Bits(slot.fns_hi, 4, 4)]
        [] reg = 10 -> [c EXCEPT !.slots[slotnum].fns_hi = data]
        [] reg = 11 -> [c EXCEPT !.slots[slotnum].waveform = Bits(data, 0, 3),
                                 !.slots[slotnum].feedback = Bits(data, 4, 3),
                                 !.slots[slotnum].accon = Bits(data, 7, 1)]
        [] reg = 12 -> [c EXCEPT !.slots[slotnum].algorithm = Bits(data, 0, 4)]
        [] reg = 13 -> [c EXCEPT !.slots[slotnum].ch0_level = Bits(data, 4, 4),
                                 !.slots[slotnum].ch1_level = Bits(data, 0, 4)]
        [] reg = 14 -> [c EXCEPT !.slots[slotnum].ch2_level = Bits(data, 4, 4),
                                 !.slots[slotnum].ch3_level = Bits(data, 0, 4)]
        [] OTHER -> c

\* the synchronized registers of ymf271_write_fm
sync_reg(reg) == reg \in {0, 9, 10, 12, 13, 14}

\* a leader test that takes every bank of an FM group for a leader
sync_mode_any_bank(sync, bank) == sync \in {0, 1, 2}

\* whether `bank' is a key-on (leader) bank of a group in mode `sync'
sync_mode(sync, bank) ==
  CASE sync = 0 -> bank = 0
    [] sync = 1 -> bank = 0 \/ bank = 1
    [] sync = 2 -> bank = 0
    [] OTHER -> FALSE

\* a broadcast that misses bank 3 of a four-slot group
sync_banks_short(sync, bank) ==
  CASE sync = 0 -> <<0, 1, 2>>
    [] sync = 1 -> IF bank = 0 THEN <<0, 2>> ELSE <<1, 3>>
    [] sync = 2 -> <<0, 1, 2>>

\* the banks, in write order, that a synchronized write from a leader reaches
\* (a write that is not synchronized reaches the written bank only)
sync_banks(sync, bank) ==
  CASE sync = 0 -> <<0, 1, 2, 3>>
    [] sync = 1 -> IF bank = 0 THEN <<0, 2>> ELSE <<1, 3>>
    [] sync = 2 -> <<0, 1, 2>>

RECURSIVE write_banks(_, _, _, _, _)
write_banks(c, banks, groupnum, reg, data) ==
  IF banks = << >>
  THEN c
  ELSE Then(write_banks(c, SubSeq(banks, 1, Len(banks) - 1), groupnum, reg, data),
            LAMBDA v : write_register(v, (12 * banks[Len(banks)]) + groupnum, reg, data))

ymf271_write_fm(c, bank, address, data) ==
  LET groupnum == fm_tab[Bits(address, 0, 4) + 1]
      reg == Bits(address, 4, 4)
  IN  IF groupnum = -1
      THEN c
      ELSE write_banks(c,
                       IF sync_mode(c.groups[groupnum].sync, bank) /\ sync_reg(reg)
                       THEN sync_banks(c.groups[groupnum].sync, bank)
                       ELSE <<bank>>,
                       groupnum, reg, data)

\* mutant: the high end-address register keeps bit 7 of the data
ymf271_write_pcm_full_byte(c, address, data) ==
  LET slotnum == pcm_tab[Bits(address, 0, 4) + 1]
      reg == Bits(address, 4, 4)
  IN  IF slotnum = -1
      THEN c
      ELSE LET slot == c.slots[slotnum]
           IN  CASE reg = 0 -> [c EXCEPT !.slots[slotnum].startaddr = SetBits(slot.startaddr, 0, 8, data)]
                 [] reg = 1 -> [c EXCEPT !.slots[slotnum].startaddr = SetBits(slot.startaddr, 8, 8, data)]
                 [] reg = 2 -> [c EXCEPT !.slots[slotnum].startaddr = SetBits(slot.startaddr, 16, 8, Bits(data, 0, 7)),
                                         !.slots[slotnum].altloop = Bits(data, 7, 1)]
                 [] reg = 3 -> [c EXCEPT !.slots[slotnum].endaddr = SetBits(slot.endaddr, 0, 8, data)]
                 [] reg = 4 -> [c EXCEPT !.slots[slotnum].endaddr = SetBits(slot.endaddr, 8, 8, data)]
                 [] reg = 5 -> [c EXCEPT !.slots[slotnum].endaddr = SetBits(slot.endaddr, 16, 8, data)]
                 [] reg = 6 -> [c EXCEPT !.slots[slotnum].loopaddr = SetBits(slot.loopaddr, 0, 8, data)]
                 [] reg = 7 -> [c EXCEPT !.slots[slotnum].loopaddr = SetBits(slot.loopaddr, 8, 8, data)]
                 [] reg = 8 -> [c EXCEPT !.slots[slotnum].loopaddr = SetBits(slot.loopaddr, 16, 8, Bits(data, 0, 7))]
                 [] reg = 9 -> [c EXCEPT !.slots[slotnum].fs = Bits(data, 0, 2),
                                         !.slots[slotnum].bits = IF Bits(data, 2, 1) = 1 THEN 12 ELSE 8,
                                         !.slots[slotnum].srcnote = Bits(data, 3, 2),
                                         !.slots[slotnum].srcb = Bits(data, 5, 3)]
                 [] OTHER -> c

ymf271_write_pcm(c, address, data) ==
  LET slotnum == pcm_tab[Bits(address, 0, 4) + 1]
      reg == Bits(address, 4, 4)
  IN  IF slotnum = -1
      THEN c
      ELSE LET slot == c.slots[slotnum]
           IN  CASE reg = 0 -> [c EXCEPT !.slots[slotnum].startaddr = SetBits(slot.startaddr, 0, 8, data)]
                 [] reg = 1 -> [c EXCEPT !.slots[slotnum].startaddr = SetBits(slot.startaddr, 8, 8, data)]
                 [] reg = 2 -> [c EXCEPT !.slots[slotnum].startaddr = SetBits(slot.startaddr, 16, 8, Bits(data, 0, 7)),
                                         !.slots[slotnum].altloop = Bits(data, 7, 1)]
                 [] reg = 3 -> [c EXCEPT !.slots[slotnum].endaddr = SetBits(slot.endaddr, 0, 8, data)]
                 [] reg = 4 -> [c EXCEPT !.slots[slotnum].endaddr = SetBits(slot.endaddr, 8, 8, data)]
                 [] reg = 5 -> [c EXCEPT !.slots[slotnum].endaddr = SetBits(slot.endaddr, 16, 8, Bits(data, 0, 7))]
                 [] reg = 6 -> [c EXCEPT !.slots[slotnum].loopaddr = SetBits(slot.loopaddr, 0, 8, data)]
                 [] reg = 7 -> [c EXCEPT !.slots[slotnum].loopaddr = SetBits(slot.loopaddr, 8, 8, data)]
                 [] reg = 8 -> [c EXCEPT !.slots[slotnum].loopaddr = SetBits(slot.loopaddr, 16, 8, Bits(data, 0, 7))]
                 [] reg = 9 -> [c EXCEPT !.slots[slotnum].fs = Bits(data, 0, 2),
                                         !.slots[slotnum].bits = IF Bits(data, 2, 1) = 1 THEN 12 ELSE 8,
                                         !.slots[slotnum].srcnote = Bits(data, 3, 2),
                                         !.slots[slotnum].srcb = Bits(data, 5, 3)]
                 [] OTHER -> c

\* a group-control write that stores the sync mode only
write_timer_sync_only(c, address, data) ==
  IF Bits(address, 4, 4) = 0 /\ fm_tab[Bits(address, 0, 4) + 1] # -1
  THEN [c EXCEPT !.groups[fm_tab[Bits(address, 0, 4) + 1]].sync = Bits(data, 0, 2)]
  ELSE c

\* chip->irq_handler(chip->irq_param, level) under the test guard
irq_call(c, guard, level) ==
  IF c.irq_handler /\ guard THEN [c EXCEPT !.irq_log = Append(c.irq_log, level)] ELSE c

\* a timer A reset that leaves the status flag standing
timer_a_reset_keeps_status(c) ==
  LET c1 == [c EXCEPT !.irqstate = SetBits(c.irqstate, 0, 1, 0)]
  IN  irq_call(c1, Bits(c1.irqstate, 1, 1) = 0, 0)

\* the timer A reset of register 0x13
timer_a_reset(c) ==
  LET c1 == [c EXCEPT !.irqstate = SetBits(c.irqstate, 0, 1, 0),
                      !.status = SetBits(c.status, 0, 1, 0)]
  IN  irq_call(c1, Bits(c1.irqstate, 1, 1) = 0, 0)

\* the timer B reset of register 0x13
timer_b_reset(c) ==
  LET c1 == [c EXCEPT !.irqstate = SetBits(c.irqstate, 1, 1, 0),
                      !.status = SetBits(c.status, 1, 1, 0)]
  IN  irq_call(c1, Bits(c1.irqstate, 0, 1) = 0, 0)

\* case 0x13 of ymf271_write_timer
timer_control(c, data) ==
  LET c1 == IF Bits(data, 4, 1) = 1 THEN timer_a_reset(c) ELSE c
      c2 == IF Bits(data, 5, 1) = 1 THEN timer_b_reset(c1) ELSE c1
  IN  [c2 EXCEPT !.enable = data]

ymf271_write_timer(c, address, data) ==
  IF Bits(address, 4, 4) = 0
  THEN LET groupnum == fm_tab[Bits(address, 0, 4) + 1]
       IN  IF groupnum = -1
           THEN c
           ELSE [c EXCEPT !.groups[groupnum].sync = Bits(data, 0, 2),
                          !.groups[groupnum].pfm = Bits(data, 7, 1)]
  ELSE CASE address = 16 -> [c EXCEPT !.timerA = Bits(c.timerA, 0, 2) + data * 4]
         [] address = 17 -> [c EXCEPT !.timerA = SetBits(c.timerA, 0, 2, data) % 1024]
         [] address = 18 -> [c EXCEPT !.timerB = data]
         [] address = 19 -> timer_control(c, data)
         [] address = 20 -> [c EXCEPT !.ext_address = SetBits(c.ext_address, 0, 8, data)]
         [] address = 21 -> [c EXCEPT !.ext_address = SetBits(c.ext_address, 8, 8, data)]
         [] address = 22 -> [c EXCEPT !.ext_address = SetBits(c.ext_address, 16, 8, Bits(data, 0, 7)),
                                      !.ext_rw = Bits(data, 7, 1)]
         [] address = 23 -> [c EXCEPT !.ext_address = (c.ext_address + 1) % (ADDR_MASK + 1)]
         [] OTHER -> c

\* a front-end whose PCM data port takes the address latched for FM bank 0
ymf271_w_fm_latch_for_pcm(c, offset, data) ==
  LET o == Bits(offset, 0, 4)
      c1 == [c EXCEPT !.regs_main[o] = data]
  IN  CASE o \in {1, 3, 5, 7} -> ymf271_write_fm(c1, (o - 1) \div 2, c1.regs_main[o - 1], data)
        [] o = 9 -> ymf271_write_pcm(c1, c1.regs_main[0], data)
        [] o = 13 -> ymf271_write_timer(c1, c1.regs_main[12], data)
        [] OTHER -> c1

ymf271_w(c, offset, data) ==
  LET o == Bits(offset, 0, 4)
      c1 == [c EXCEPT !.regs_main[o] = data]
  IN  CASE o \in {1, 3, 5, 7} -> ymf271_write_fm(c1, (o - 1) \div 2, c1.regs_main[o - 1], data)
        [] o = 9 -> ymf271_write_pcm(c1, c1.regs_main[8], data)
        [] o = 13 -> ymf271_write_timer(c1, c1.regs_main[12], data)
        [] OTHER -> c1

\* status ports 0 and 1 of ymf271_r
status_port0(c) == (c.busy_flag * 128) + c.status + (Bits(c.end_status, 0, 4) * 8)
status_port1(c) == c.end_status \div 16

\* a Timer A expiry that raises the IRQ whatever the enable byte says
timer_a_tick_always_irq(c) ==
  irq_call([c EXCEPT !.status = SetBits(c.status, 0, 1, 1),
                     !.irqstate = SetBits(c.irqstate, 0, 1, 1)], TRUE, 1)

ymf271_timer_a_tick(c) ==
  LET c1 == [c EXCEPT !.status = SetBits(c.status, 0, 1, 1)]
  IN  IF Bits(c.enable, 2, 1) = 1
      THEN irq_call([c1 EXCEPT !.irqstate = SetBits(c.irqstate, 0, 1, 1)], TRUE, 1)
      ELSE c1

ymf271_timer_b_tick(c) ==
  LET c1 == [c EXCEPT !.status = SetBits(c.status, 1, 1, 1)]
  IN  IF Bits(c.enable, 3, 1) = 1
      THEN irq_call([c1 EXCEPT !.irqstate = SetBits(c.irqstate, 1, 1, 1)], TRUE, 1)
      ELSE c1

\* a reset that leaves the end-status flags standing
device_reset_keeps_end_status(c) ==
  [c EXCEPT !.slots = [n \in Slots |-> [c.slots[n] EXCEPT !.active = 0, !.volume = 0]],
            !.irqstate = 0, !.status = 0, !.enable = 0, !.busy_flag = 0]

device_reset_ymf271(c) ==
  irq_call([c EXCEPT !.slots = [n \in Slots |-> [c.slots[n] EXCEPT !.active = 0, !.volume = 0]],
                     !.irqstate = 0, !.status = 0, !.end_status = 0, !.enable = 0,
                     !.busy_flag = 0],
           TRUE, 0)

\* ------------------------------------------------------------------------
\* Envelope, LFO and volume, once per slot and output sample
\* ------------------------------------------------------------------------
\* (a * b) >> 16 for 0 <= b <= 65536, computed without leaving 32 bits
MulShr16(a, b) ==
  LET ah == a \div 65536
      al == a % 65536
      bh == b \div 256
      bl == b % 256
  IN  (ah * b) + (((al * bh) + ((al * bl) \div 256)) \div 256)

\* conversion of an int in 0 .. 65535 to INT16
ToINT16(v) == IF v >= 32768 THEN v - 65536 ELSE v

\* an envelope end that puts the slot back at the key-on level
check_envelope_end_restart(slot) ==
  IF slot.volume <= 0
  THEN [slot EXCEPT !.active = 0, !.volume = (255 - 160) * Pow2(ENV_VOLUME_SHIFT)]
  ELSE slot

check_envelope_end(slot) ==
  IF slot.volume <= 0 THEN [slot EXCEPT !.active = 0, !.volume = 0] ELSE slot

\* an attack that stops anywhere in the top cell of the envelope table
\* instead of at 255 << 16
update_envelope_overshoot(slot) ==
  CASE slot.env_state = ENV_ATTACK ->
         LET v == slot.volume + slot.env_attack_step
         IN  IF v >= 255 * Pow2(ENV_VOLUME_SHIFT)
             THEN [slot EXCEPT !.volume = Min(v, (256 * Pow2(ENV_VOLUME_SHIFT)) - 1),
                               !.env_state = ENV_DECAY1]
             ELSE [slot EXCEPT !.volume = v]
    [] slot.env_state = ENV_DECAY1 ->
         LET decay_level == 255 - (slot.decay1lvl * 16)
             v == slot.volume - slot.env_decay1_step
             s1 == check_envelope_end([slot EXCEPT !.volume = v])
         IN  IF v > 0 /\ Sar(v, ENV_VOLUME_SHIFT) <= decay_level
             THEN [s1 EXCEPT !.env_state = ENV_DECAY2]
             ELSE s1
    [] slot.env_state \in {ENV_DECAY2, ENV_RELEASE} ->
         check_envelope_end(
           [slot EXCEPT !.volume = slot.volume - (IF slot.env_state = ENV_DECAY2
                                                  THEN slot.env_decay2_step
                                                  ELSE slot.env_release_step)])
    [] OTHER -> slot

update_envelope(slot) ==
  CASE slot.env_state = ENV_ATTACK ->
         LET v == slot.volume + slot.env_attack_step
         IN  IF v >= 255 * Pow2(ENV_VOLUME_SHIFT)
             THEN [slot EXCEPT !.volume = 255 * Pow2(ENV_VOLUME_SHIFT), !.env_state = ENV_DECAY1]
             ELSE [slot EXCEPT !.volume = v]
    [] slot.env_state = ENV_DECAY1 ->
         LET decay_level == 255 - (slot.decay1lvl * 16)
             v == slot.volume - slot.env_decay1_step
             s1 == check_envelope_end([slot EXCEPT !.volume = v])
         IN  IF v > 0 /\ Sar(v, ENV_VOLUME_SHIFT) <= decay_level
             THEN [s1 EXCEPT !.env_state = ENV_DECAY2]
             ELSE s1
    [] slot.env_state = ENV_DECAY2 ->
         check_envelope_end([slot EXCEPT !.volume = slot.volume - slot.env_decay2_step])
    [] slot.env_state = ENV_RELEASE ->
         check_envelope_end([slot EXCEPT !.volume = slot.volume - slot.env_release_step])
    [] OTHER -> slot

update_lfo(slot) ==
  LET phase == slot.lfo_phase + slot.lfo_step
      idx == Sar(phase, LFO_SHIFT) % LFO_LENGTH
  IN  calculate_step([slot EXCEPT !.lfo_phase = phase,
                                  !.lfo_amplitude = lut_alfo(slot.lfowave, idx),
                                  !.lfo_phasemod = lut_plfo(slot.lfowave, slot.pms, idx)])

\* the INT32 product lfo_amplitude * depth, shifted; the product is defined
\* only while it fits 32 bits
lfo_attenuation(amplitude, depth) ==
  CASE amplitude <= 2147483647 \div depth -> Sar(amplitude * depth, 16)

calculate_slot_volume(slot) ==
  LET lfo_volume == CASE slot.ams = 0 -> 65536
                      [] slot.ams = 1 -> 65536 - lfo_attenuation(slot.lfo_amplitude, 33124)
                      [] slot.ams = 2 -> 65536 - lfo_attenuation(slot.lfo_amplitude, 16742)
                      [] slot.ams = 3 -> 65536 - lfo_attenuation(slot.lfo_amplitude, 4277)
      env_volume == MulShr16(lut_env_volume[(255 - Sar(slot.volume, ENV_VOLUME_SHIFT)) + 1], lfo_volume)
  IN  MulShr16(env_volume, lut_total_level[slot.tl + 1])

\* ------------------------------------------------------------------------
\* Sample ROM
\* ------------------------------------------------------------------------
\* a read without the bound check: past the end of the array it returns
\* whatever lies there (here 255)
read_memory_unchecked(c, offset) ==
  LET o == offset % (ADDR_MASK + 1)
  IN  [offset |-> offset, index |-> o,
       value |-> IF o < c.mem_size THEN c.mem_base[o + 1] ELSE 255]

\* ymf271_read_memory: the offset asked for, the array index read (-1: no
\* read) and the byte returned
ymf271_read_memory(c, offset) ==
  LET o == offset % (ADDR_MASK + 1)
  IN  IF o < c.mem_size
      THEN [offset |-> offset, index |-> o, value |-> c.mem_base[o + 1]]
      ELSE [offset |-> offset, index |-> -1, value |-> 0]

\* ymf271_alloc_rom, for memsize > 0 (realloc succeeds)
ymf271_alloc_rom(c, memsize) ==
  IF c.mem_size = memsize
  THEN c
  ELSE [c EXCEPT !.mem_alloc = TRUE, !.mem_size = memsize,
                 !.mem_base = [k \in 1 .. memsize |-> 255]]

ymf271_write_rom(c, offset, data) ==
  IF offset > c.mem_size
  THEN c
  ELSE LET length == IF offset + Len(data) > c.mem_size THEN c.mem_size - offset ELSE Len(data)
       IN  [c EXCEPT !.mem_base = [k \in 1 .. c.mem_size |->
              IF k - 1 >= offset /\ k - 1 < offset + length
              THEN data[k - offset]
              ELSE c.mem_base[k]]]

\* one 8-bit or packed 12-bit sample at sample position `pos' of a slot, with
\* the ROM reads made for it
fetch_sample(c, slot, pos) ==
  IF slot.bits = 8
  THEN LET r == ymf271_read_memory(c, slot.startaddr + pos)
       IN  [sample |-> ToINT16(r.value * 256), reads |-> <<r>>]
  ELSE LET byte_offset == (pos \div 2) * 3
       IN  IF pos % 2 = 1
           THEN LET hi == ymf271_read_memory(c, slot.startaddr + byte_offset + 2)
                    lo == ymf271_read_memory(c, slot.startaddr + byte_offset + 1)
                IN  [sample |-> ToINT16((hi.value * 256) + ((lo.value % 16) * 16)),
                     reads |-> <<hi, lo>>]
           ELSE LET hi == ymf271_read_memory(c, slot.startaddr + byte_offset)
                    lo == ymf271_read_memory(c, slot.startaddr + byte_offset + 1)
                IN  [sample |-> ToINT16((hi.value * 256) + ((lo.value \div 16) * 16)),
                     reads |-> <<hi, lo>>]

\* ------------------------------------------------------------------------
\* PCM playback engine
\* ------------------------------------------------------------------------
\* stepptr is kept as sample index i and 16-bit fraction f; a negative i
\* stands for the UINT64 value that wrapped below zero
StepAdd(sp, step) == [i |-> sp.i + ((sp.f + step) \div 65536), f |-> (sp.f + step) % 65536]
\* a reverse step that moves forward
StepSub_forward(sp, step) == [i |-> sp.i + ((sp.f + step) \div 65536), f |-> (sp.f + step) % 65536]
StepSub(sp, step) == [i |-> sp.i + ((sp.f - step) \div 65536), f |-> (sp.f - step) % 65536]
\* an end test that fires one sample early
PastEnd_inclusive(sp, endaddr) == sp.i < 0 \/ sp.i >= endaddr
\* unsigned (stepptr >> 16) > endaddr
PastEnd(sp, endaddr) == sp.i < 0 \/ sp.i > endaddr

channel_levels(slot) == <<slot.ch0_level, slot.ch1_level, slot.ch2_level, slot.ch3_level>>

\* no saturation
sat18_off(x) == x
sat18(x) == IF x > ACC_18BIT_MAX THEN ACC_18BIT_MAX ELSE IF x < ACC_18BIT_MIN THEN ACC_18BIT_MIN ELSE x

\* a loop jump that lands one sample early, on loopaddr itself
loop_jump_early(slot) == slot.stepptr.i - slot.endaddr - 1 + slot.loopaddr
\* normal loop: the sample index after stepptr - (endaddr << 16) + (loopaddr << 16)
loop_jump(slot) == slot.stepptr.i - slot.endaddr + slot.loopaddr

\* loop handling at the head of one update_pcm iteration
pcm_loop(c, slotnum) ==
  LET slot == c.slots[slotnum]
      sp == slot.stepptr
  IN  IF slot.loop_direction > 0
      THEN IF PastEnd(sp, slot.endaddr)
           THEN LET jump == loop_jump(slot)
                    s1 == IF slot.altloop # 0
                          THEN [slot EXCEPT !.loop_direction = -1,
                                            !.stepptr = [i |-> slot.endaddr, f |-> sp.f]]
                          ELSE IF ~PastEnd([i |-> jump, f |-> sp.f], slot.endaddr)
                          THEN [slot EXCEPT !.stepptr = [i |-> jump, f |-> sp.f]]
                          ELSE IF ~(slot.loopaddr > slot.endaddr)
                          THEN [slot EXCEPT !.stepptr = [i |-> slot.loopaddr, f |-> sp.f]]
                          ELSE [slot EXCEPT !.stepptr = [i |-> slot.endaddr, f |-> sp.f]]
                IN  calculate_status_end([c EXCEPT !.slots[slotnum] = s1], slotnum, 1)
           ELSE c
      ELSE IF sp.i >= 0 /\ sp.i < slot.loopaddr
           THEN [c EXCEPT !.slots[slotnum].loop_direction = 1,
                          !.slots[slotnum].stepptr = [i |-> slot.loopaddr, f |-> sp.f]]
           ELSE c

\* an accumulator input scaled to 16 bits before the 18-bit clamp
acc_output_shift_first(sample, tl) ==
  LET accumulation_factor == IF tl = 0 THEN ACC_TL_SCALE ELSE tl * ACC_TL_SCALE
  IN  sat18(Sar(sample * accumulation_factor, 2))

\* the Accon = 1 path: accumulator input of one sample
acc_output(sample, tl) ==
  LET accumulation_factor == IF tl = 0 THEN ACC_TL_SCALE ELSE tl * ACC_TL_SCALE
  IN  Sar(sat18(sample * accumulation_factor), 2)

\* one iteration i of the update_pcm loop on the update context u: c1 is the
\* chip after the loop handling, fs the sample fetched at the slot's position,
\* s2 the slot after update_envelope and update_lfo; the log entry keeps the
\* slot's active flag and what the iteration adds to acc_buffer or mix_buffer
pcm_output(u, slotnum, i, c1, fs, s2) ==
  LET lv == channel_levels(s2)
      output == acc_output(fs.sample, s2.tl)
      final_volume == calculate_slot_volume(s2)
      adds == IF s2.accon # 0
              THEN [k \in 1 .. 4 |-> MulShr16(output, lut_attenuation[lv[k] + 1])]
              ELSE [k \in 1 .. 4 |->
                      MulShr16(fs.sample,
                               Min(MulShr16(final_volume, lut_attenuation[lv[k] + 1]), 65536))]
      s3 == [s2 EXCEPT !.stepptr = IF s2.loop_direction > 0
                                   THEN StepAdd(s2.stepptr, s2.step)
                                   ELSE StepSub(s2.stepptr, s2.step)]
      log == [slot |-> slotnum, kernel |-> "pcm", pos |-> c1.slots[slotnum].stepptr.i,
              sample |-> fs.sample, reads |-> fs.reads, active |-> s2.active, adds |-> adds]
  IN  IF s2.accon # 0
      THEN [u EXCEPT !.c = [c1 EXCEPT !.slots[slotnum] = s3],
                     !.fetches = Append(@, log),
                     !.acc[i] = [k \in 1 .. 4 |-> sat18(u.acc[i][k] + adds[k])],
                     !.accs = Append(@, [slot |-> slotnum, i |-> i, output |-> output, adds |-> adds])]
      ELSE [u EXCEPT !.c = [c1 EXCEPT !.slots[slotnum] = s3],
                     !.fetches = Append(@, log),
                     !.mix[i] = [k \in 1 .. 4 |-> u.mix[i][k] + adds[k]]]

pcm_fetch(u, slotnum, i, c1) ==
  pcm_output(u, slotnum, i, c1,
             fetch_sample(c1, c1.slots[slotnum], c1.slots[slotnum].stepptr.i),
             update_lfo(update_envelope(c1.slots[slotnum])))

pcm_sample(u, slotnum, i) == pcm_fetch(u, slotnum, i, pcm_loop(u.c, slotnum))

\* iterations 0 .. length - 1 of the update_pcm loop
RECURSIVE pcm_samples(_, _, _)
pcm_samples(u, slotnum, length) ==
  IF length = 0
  THEN u
  ELSE Then(pcm_samples(u, slotnum, length - 1),
            LAMBDA v : pcm_sample(v, slotnum, length - 1))

update_pcm(u, slotnum, length) ==
  IF u.c.slots[slotnum].active = 0 THEN u ELSE pcm_samples(u, slotnum, length)

\* ------------------------------------------------------------------------
\* FM and PFM operator kernels
\* ------------------------------------------------------------------------
lut_waves == <<WaveTable0, WaveTable1, WaveTable2, WaveTable3,
               WaveTable4, WaveTable5, WaveTable6, WaveTable7>>

\* the phase input of an operator in units of 1/65536 sample, as whole 256ths
\* (hi) and remainder (lo): the feedback average, or (inp << 8) *
\* modulation_level; with the envelope volume and the slot after the input
\* is taken
op_input(slot, inp) ==
  LET fb == CDiv(slot.feedback_modulation0 + slot.feedback_modulation1, 2)
  IN  [env |-> calculate_slot_volume(slot),
       slot |-> IF inp = OP_INPUT_FEEDBACK
                THEN [slot EXCEPT !.feedback_modulation0 = slot.feedback_modulation1]
                ELSE slot,
       hi |-> IF inp = OP_INPUT_FEEDBACK THEN fb \div 256
              ELSE IF inp # OP_INPUT_NONE THEN inp * modulation_level[slot.feedback + 1]
              ELSE 0,
       lo |-> IF inp = OP_INPUT_FEEDBACK THEN fb % 256 ELSE 0]

\* envelope and LFO update shared by the two kernels
op_prologue(c, slotnum, inp) == op_input(update_lfo(update_envelope(c.slots[slotnum])), inp)

\* (stepptr + slot_input) >> 16
modulated_index(sp, hi, lo) == sp.i + ((((sp.f + lo) \div 256) + hi) \div 256)

\* the end of both kernels: the phase advances, the output is scaled by the
\* envelope volume
op_epilogue(u, slotnum, inp, p, kernel, sample) ==
  [u EXCEPT !.c.slots[slotnum] = [p.slot EXCEPT !.stepptr = StepAdd(p.slot.stepptr, p.slot.step)],
            !.ret = MulShr16(sample, p.env),
            !.ops = Append(@, [slot |-> slotnum, kernel |-> kernel, inp |-> inp,
                               slot_input |-> (p.hi * 256) + p.lo,
                               ret |-> MulShr16(sample, p.env)])]

op_wave(u, slotnum, inp, p) ==
  op_epilogue(u, slotnum, inp, p, "fm",
              lut_waves[p.slot.waveform + 1]
                       [(modulated_index(p.slot.stepptr, p.hi, p.lo) % SIN_LEN) + 1])

calculate_op(u, slotnum, inp) == op_wave(u, slotnum, inp, op_prologue(u.c, slotnum, inp))

set_feedback(u, slotnum, inp) ==
  [u EXCEPT !.c.slots[slotnum].feedback_modulation1 =
              CDiv((inp * 256) * feedback_level[u.c.slots[slotnum].feedback + 1], 4)]

\* the sample position calculate_op_pfm reads for a modulated position
pfm_offset(slot, modulated) ==
  LET sample_offset == IF modulated < 0 THEN 0 ELSE modulated
      sample_length == slot.endaddr - slot.startaddr
      loop_length == slot.endaddr - slot.loopaddr
  IN  IF sample_length >= 0 /\ sample_offset > sample_length
      THEN IF slot.loopaddr <= slot.endaddr /\ loop_length > 0
           THEN (slot.loopaddr - slot.startaddr) + ((sample_offset - sample_length) % loop_length)
           ELSE sample_length
      ELSE sample_offset

pfm_log(u, slotnum, pos, fs) ==
  [u EXCEPT !.fetches = Append(@, [slot |-> slotnum, kernel |-> "pfm", pos |-> pos,
                                   sample |-> fs.sample, reads |-> fs.reads])]

pfm_fetch(u, slotnum, inp, p, pos) ==
  Then(fetch_sample(u.c, p.slot, pos),
       LAMBDA fs : op_epilogue(pfm_log(u, slotnum, pos, fs), slotnum, inp, p, "pfm", fs.sample))

pfm_wave(u, slotnum, inp, p) ==
  pfm_fetch(u, slotnum, inp, p, pfm_offset(p.slot, modulated_index(p.slot.stepptr, p.hi, p.lo)))

\* a PFM kernel that still looks the sample up in the waveform table
calculate_op_pfm_wavetable(u, slotnum, inp) == calculate_op(u, slotnum, inp)

calculate_op_pfm(u, slotnum, inp) == pfm_wave(u, slotnum, inp, op_prologue(u.c, slotnum, inp))

\* ------------------------------------------------------------------------
\* Group dispatcher (ymf271_update)
\* ------------------------------------------------------------------------
\* The case bodies of the algorithm switches, one row per algorithm.  A step
\* names the slot of the configuration it runs (1 .. 4), the values summed
\* into its input, and the local variable it assigns:
\*   Op   x = calculate_op(slot, in)
\*   Fb   set_feedback(slot1, x)
\*   Car  x = pfm_enabled ? calculate_op_pfm(slot, in) : calculate_op(slot, in)
\*   Alt  x = pfm_enabled ? calculate_op_pfm(slot, in) : y
Op(s, in, dst) == [k |-> "op", s |-> s, in |-> in, src |-> dst, dst |-> dst]
Fb(src) == [k |-> "fb", s |-> 1, in |-> << >>, src |-> src, dst |-> src]
Car(s, in, dst) == [k |-> "car", s |-> s, in |-> in, src |-> dst, dst |-> dst]
Alt(s, in, src, dst) == [k |-> "alt", s |-> s, in |-> in, src |-> src, dst |-> dst]

FB == <<"FB">>
NONE == <<"NONE">>

algorithms_4op ==
  << <<Op(1, FB, "p1"), Fb("p1"), Op(3, <<"p1">>, "p3"), Op(2, <<"p3">>, "p2"), Car(4, <<"p2">>, "o4")>>,
     <<Op(1, FB, "p1"), Op(3, <<"p1">>, "p3"), Fb("p3"), Op(2, <<"p3">>, "p2"), Car(4, <<"p2">>, "o4")>>,
     <<Op(1, FB, "p1"), Fb("p1"), Op(3, NONE, "p3"), Op(2, <<"p1", "p3">>, "p2"), Car(4, <<"p2">>, "o4")>>,
     <<Op(1, FB, "p1"), Fb("p1"), Op(3, NONE, "p3"), Op(2, <<"p3">>, "p2"), Car(4, <<"p1", "p2">>, "o4")>>,
     <<Op(1, FB, "p1"), Fb("p1"), Op(3, <<"p1">>, "p3"), Op(2, NONE, "p2"), Car(4, <<"p3", "p2">>, "o4")>>,
     <<Op(1, FB, "p1"), Op(3, <<"p1">>, "p3"), Fb("p3"), Op(2, NONE, "p2"), Car(4, <<"p3", "p2">>, "o4")>>,
     <<Op(1, FB, "p1"), Fb("p1"), Car(3, <<"p1">>, "o3"), Op(2, NONE, "p2"), Car(4, <<"p2">>, "o4")>>,
     <<Op(1, FB, "p1"), Op(3, <<"p1">>, "p3"), Fb("p3"), Alt(3, <<"p1">>, "p3", "o3"),
       Op(2, NONE, "p2"), Car(4, <<"p2">>, "o4")>>,
     <<Op(1, FB, "p1"), Fb("p1"), Alt(1, FB, "p1", "o1"), Op(3, NONE, "p3"),
       Op(2, <<"p3">>, "p2"), Car(4, <<"p2">>, "o4")>>,
     <<Op(1, FB, "p1"), Fb("p1"), Alt(1, FB, "p1", "o1"), Op(3, NONE, "p3"),
       Op(2, NONE, "p2"), Car(4, <<"p3", "p2">>, "o4")>>,
     <<Op(1, FB, "p1"), Fb("p1"), Car(3, <<"p1">>, "o3"), Car(2, NONE, "o2"), Car(4, NONE, "o4")>>,
     <<Op(1, FB, "p1"), Op(3, <<"p1">>, "p3"), Fb("p3"), Alt(3, <<"p1">>, "p3", "o3"),
       Car(2, NONE, "o2"), Car(4, NONE, "o4")>>,
     <<Op(1, FB, "p1"), Fb("p1"), Car(3, <<"p1">>, "o3"), Car(2, <<"p1">>, "o2"), Car(4, <<"p1">>, "o4")>>,
     <<Op(1, FB, "p1"), Fb("p1"), Alt(1, FB, "p1", "o1"), Op(3, NONE, "p3"),
       Car(2, <<"p3">>, "o2"), Car(4, NONE, "o4")>>,
     <<Op(1, FB, "p1"), Fb("p1"), Alt(1, FB, "p1", "o1"), Car(3, <<"p1">>, "o3"),
       Op(2, NONE, "p2"), Car(4, <<"p2">>, "o4")>>,
     <<Op(1, FB, "p1"), Fb("p1"), Alt(1, FB, "p1", "o1"), Car(3, NONE, "o3"),
       Car(2, NONE, "o2"), Car(4, NONE, "o4")>> >>

algorithms_2op ==
  << <<Op(1, FB, "p1"), Fb("p1"), Car(3, <<"p1">>, "o3")>>,
     <<Op(1, FB, "p1"), Op(3, <<"p1">>, "p3"), Fb("p3"), Alt(3, <<"p1">>, "p3", "o3")>>,
     <<Op(1, FB, "p1"), Fb("p1"), Alt(1, FB, "p1", "o1"), Car(3, NONE, "o3")>>,
     <<Op(1, FB, "p1"), Fb("p1"), Alt(1, FB, "p1", "o1"), Car(3, <<"p1">>, "o3")>> >>

algorithms_3op ==
  << <<Op(1, FB, "p1"), Fb("p1"), Op(3, <<"p1">>, "p3"), Car(2, <<"p3">>, "o2")>>,
     <<Op(1, FB, "p1"), Op(3, <<"p1">>, "p3"), Fb("p3"), Car(2, <<"p3">>, "o2")>>,
     <<Op(1, FB, "p1"), Fb("p1"), Op(3, NONE, "p3"), Car(2, <<"p1", "p3">>, "o2")>>,
     <<Op(1, FB, "p1"), Fb("p1"), Alt(1, FB, "p1", "o1"), Op(3, NONE, "p3"), Car(2, <<"p3">>, "o2")>>,
     <<Op(1, FB, "p1"), Fb("p1"), Car(3, <<"p1">>, "o3"), Car(2, NONE, "o2")>>,
     <<Op(1, FB, "p1"), Op(3, <<"p1">>, "p3"), Fb("p3"), Alt(3, <<"p1">>, "p3", "o3"), Car(2, NONE, "o2")>>,
     <<Op(1, FB, "p1"), Fb("p1"), Alt(1, FB, "p1", "o1"), Car(3, NONE, "o3"), Car(2, NONE, "o2")>>,
     <<Op(1, FB, "p1"), Fb("p1"), Alt(1, FB, "p1", "o1"), Car(3, <<"p1">>, "o3"), Car(2, NONE, "o2")>> >>

\* the local variables of one pass: the two sentinels and all outputs zero
locals0 ==
  [n \in {"FB", "NONE", "p1", "p2", "p3", "o1", "o2", "o3", "o4"} |->
     IF n = "FB" THEN OP_INPUT_FEEDBACK ELSE IF n = "NONE" THEN OP_INPUT_NONE ELSE 0]

output_name == <<"o1", "o2", "o3", "o4">>

RECURSIVE SumIn(_, _)
SumIn(r, in) == IF in = << >> THEN 0 ELSE r[Head(in)] + SumIn(r, Tail(in))

\* the step's destination assigned the kernel's return value
assign_ret(x, dst, u1) == [u |-> u1, r |-> [x.r EXCEPT ![dst] = u1.ret]]

run_op(x, st, slotnum, inp, pfm) ==
  assign_ret(x, st.dst, IF pfm THEN calculate_op_pfm(x.u, slotnum, inp)
                               ELSE calculate_op(x.u, slotnum, inp))

run_step(x, st, slotmap, pfm_enabled) ==
  CASE st.k = "fb" -> [u |-> set_feedback(x.u, slotmap[st.s], x.r[st.src]), r |-> x.r]
    [] st.k = "alt" /\ pfm_enabled = 0 -> [u |-> x.u, r |-> [x.r EXCEPT ![st.dst] = x.r[st.src]]]
    [] OTHER -> run_op(x, st, slotmap[st.s], SumIn(x.r, st.in),
                       st.k # "op" /\ pfm_enabled # 0)

\* the first n steps of a row, in order
RECURSIVE run_steps(_, _, _, _, _)
run_steps(x, prog, n, slotmap, pfm_enabled) ==
  IF n = 0
  THEN x
  ELSE Then(run_steps(x, prog, n - 1, slotmap, pfm_enabled),
            LAMBDA v : run_step(v, prog[n], slotmap, pfm_enabled))

RECURSIVE SumOut(_, _, _, _)
SumOut(x, slotmap, k, todo) ==
  IF todo = {}
  THEN 0
  ELSE LET n == CHOOSE m \in todo : TRUE
           lv == channel_levels(x.u.c.slots[slotmap[n]])
       IN  MulShr16(x.r[output_name[n]], lut_attenuation[lv[k] + 1])
             + SumOut(x, slotmap, k, todo \ {n})

\* the PAN block of one FM iteration, x being the context and the locals
\* after the algorithm
fm_pan(u, x, slotmap, i) ==
  [x.u EXCEPT !.mix[i] = [k \in 1 .. 4 |-> u.mix[i][k] + SumOut(x, slotmap, k, DOMAIN slotmap)]]

\* one iteration i of an FM sample loop: the algorithm, then the PAN block
fm_sample(u, algs, mask, slotmap, pfm_enabled, i) ==
  LET prog == algs[(u.c.slots[slotmap[1]].algorithm % mask) + 1]
  IN  fm_pan(u, run_steps([u |-> u, r |-> locals0], prog, Len(prog), slotmap, pfm_enabled),
             slotmap, i)

\* iterations 0 .. length - 1 of an FM sample loop
RECURSIVE fm_samples(_, _, _, _, _, _)
fm_samples(u, algs, mask, slotmap, pfm_enabled, length) ==
  IF length = 0
  THEN u
  ELSE Then(fm_samples(u, algs, mask, slotmap, pfm_enabled, length - 1),
            LAMBDA v : fm_sample(v, algs, mask, slotmap, pfm_enabled, length - 1))

\* FM configuration led by slotmap[1]: runs only while the leader is active
fm_config(u, algs, mask, slotmap, pfm_enabled, length) ==
  IF u.c.slots[slotmap[1]].active # 0
  THEN fm_samples(u, algs, mask, slotmap, pfm_enabled, length)
  ELSE u

\* the PFM flag taken for every group
pfm_enabled_any(c, j) == c.groups[j].pfm

\* PFM is only available for groups 0, 4, 8
pfm_enabled_of(c, j) == IF j \in {0, 4, 8} THEN c.groups[j].pfm ELSE 0

\* the FM configurations of group j in sync mode `sync', in the order run
fm_configs(sync, j) ==
  CASE sync = 0 -> << [algs |-> algorithms_4op, mask |-> 16,
                       slotmap |-> [n \in 1 .. 4 |-> j + ((n - 1) * 12)]] >>
    [] sync = 1 -> << [algs |-> algorithms_2op, mask |-> 4,
                       slotmap |-> [n \in {1, 3} |-> j + ((n - 1) * 12)]],
                      [algs |-> algorithms_2op, mask |-> 4,
                       slotmap |-> [n \in {1, 3} |-> j + (n * 12)]] >>
    [] sync = 2 -> << [algs |-> algorithms_3op, mask |-> 8,
                       slotmap |-> [n \in 1 .. 3 |-> j + ((n - 1) * 12)]] >>
    [] sync = 3 -> << >>

\* the slots of group j that sync mode `sync' plays through update_pcm, in
\* the order run (after the FM configurations)
pcm_slots(sync, j) ==
  CASE sync = 2 -> <<j + 36>>
    [] sync = 3 -> <<j, j + 12, j + 24, j + 36>>
    [] OTHER -> << >>

RECURSIVE run_fm_configs(_, _, _, _, _)
run_fm_configs(u, cfgs, n, pfm, length) ==
  IF n = 0
  THEN u
  ELSE Then(run_fm_configs(u, cfgs, n - 1, pfm, length),
            LAMBDA v : fm_config(v, cfgs[n].algs, cfgs[n].mask, cfgs[n].slotmap, pfm, length))

RECURSIVE run_pcm_slots(_, _, _, _)
run_pcm_slots(u, slots, n, length) ==
  IF n = 0
  THEN u
  ELSE Then(run_pcm_slots(u, slots, n - 1, length),
            LAMBDA v : update_pcm(v, slots[n], length))

\* a mute test that never finds a group muted
group_muted_never(c, j) == FALSE

\* slot_group->Muted
group_muted(c, j) == c.groups[j].Muted # 0

\* a ROM test that never finds the ROM missing
rom_missing_never(c) == FALSE

\* chip->mem_base == NULL
rom_missing(c) == ~c.mem_alloc

\* one iteration j of the group loop
update_group(u, j, length) ==
  LET sync == u.c.groups[j].sync
  IN  IF group_muted(u.c, j) \/ rom_missing(u.c)
      THEN u
      ELSE run_pcm_slots(run_fm_configs(u, fm_configs(sync, j), Len(fm_configs(sync, j)),
                                        pfm_enabled_of(u.c, j), length),
                         pcm_slots(sync, j), Len(pcm_slots(sync, j)), length)

\* the pass of each of the groups 0 .. n - 1 over the context u0.  A group
\* reads and writes only its own four slots, its own end-status bits and
\* the two buffers, so every pass is computed from the chip at entry
RECURSIVE group_results(_, _, _)
group_results(u0, n, length) ==
  IF n = 0
  THEN << >>
  ELSE Append(group_results(u0, n - 1, length), update_group(u0, n - 1, length))

\* mix_buffer[i*4 + k - 1] after the passes g[1 .. n]
RECURSIVE mix_sum(_, _, _, _)
mix_sum(g, n, i, k) == IF n = 0 THEN 0 ELSE g[n].mix[i][k] + mix_sum(g, n - 1, i, k)

\* acc_buffer[i*4 + k - 1] after the accumulator inputs evs[1 .. n], each
\* added with 18-bit saturation in the order the passes made them
RECURSIVE acc_sum(_, _, _, _)
acc_sum(evs, n, i, k) ==
  IF n = 0
  THEN 0
  ELSE IF evs[n].i = i
       THEN sat18(acc_sum(evs, n - 1, i, k) + evs[n].adds[k])
       ELSE acc_sum(evs, n - 1, i, k)

\* end_status after the passes g[1 .. n]: a pass only sets bits
RECURSIVE end_sum(_, _, _)
end_sum(g, n, before) ==
  IF n = 0 THEN before ELSE (g[n].c.end_status - before) + end_sum(g, n - 1, before)

\* the log `field' of the passes g[1 .. n], in order
RECURSIVE Gather(_, _, _)
Gather(g, n, field) == IF n = 0 THEN << >> ELSE Gather(g, n - 1, field) \o g[n][field]

\* the stereo fold of one frame: ACC into the mix, rear channels at 5/256, >> 2
stereo_frame(mix, acc) ==
  LET ch == [k \in 1 .. 4 |-> mix[k] + acc[k]]
  IN  <<Sar(ch[1] + Sar(ch[3] * 5, 8), 2), Sar(ch[2] + Sar(ch[4] * 5, 8), 2)>>

\* the update context at entry: both buffers cleared, nothing logged
update_context(c, samples) ==
  [c |-> c,
   mix |-> [i \in 0 .. samples - 1 |-> <<0, 0, 0, 0>>],
   acc |-> [i \in 0 .. samples - 1 |-> <<0, 0, 0, 0>>],
   ret |-> 0, ops |-> << >>, fetches |-> << >>, accs |-> << >>]

\* the chip, the buffers and the output frames after the group passes g
update_result(c, samples, g, accs) ==
  [c |-> [c EXCEPT !.slots = [s \in Slots |-> g[(s % NumGroups) + 1].c.slots[s]],
                   !.end_status = end_sum(g, NumGroups, c.end_status)],
   outputs |-> [i \in 0 .. samples - 1 |->
                  stereo_frame([k \in 1 .. 4 |-> mix_sum(g, NumGroups, i, k)],
                               [k \in 1 .. 4 |-> acc_sum(accs, Len(accs), i, k)])],
   acc |-> [i \in 0 .. samples - 1 |-> [k \in 1 .. 4 |-> acc_sum(accs, Len(accs), i, k)]],
   ops |-> Gather(g, NumGroups, "ops"),
   fetches |-> Gather(g, NumGroups, "fetches"),
   accs |-> accs]

update_gather(c, samples, g) == update_result(c, samples, g, Gather(g, NumGroups, "accs"))

\* one chunk of ymf271_update (samples <= mixbuf_smpls): the chip afterwards,
\* the output frames, and what the kernels did
ymf271_update(c, samples) ==
  update_gather(c, samples, group_results(update_context(c, samples), NumGroups, samples))

\* ------------------------------------------------------------------------
\* The chip under its host: register writes, reset, timers, ROM, rendering
\* ------------------------------------------------------------------------
VARIABLES
  chip,   \* the YMF271Chip record
  last,   \* the host call that produced this state, with its arguments (for
          \* a reset: the two status ports and the number of active slots
          \* just before it)
  obs,    \* what the last ymf271_update call did (its frames and kernel log)
  nops    \* number of host calls made so far

vars == <<chip, last, obs, nops>>

\* the sample ROM image the host loads
RomImage == <<128, 144, 160, 176, 192, 208, 127, 64>>

NoObs == [outputs |-> << >>, acc |-> << >>, ops |-> << >>, fetches |-> << >>, accs |-> << >>]

Call(name, a, b) == [op |-> name, a |-> a, b |-> b]

\* ymf271_w(offset, data)
W(limit, offset, data) ==
  /\ nops < limit
  /\ chip' = ymf271_w(chip, offset, data)
  /\ last' = Call("w", offset, data)
  /\ nops' = nops + 1
  /\ UNCHANGED obs

\* device_reset_ymf271
Reset(limit) ==
  /\ nops < limit
  /\ chip' = device_reset_ymf271(chip)
  /\ last' = Call("reset", status_port0(chip) + (256 * status_port1(chip)),
                  Cardinality({n \in Slots : chip.slots[n].active # 0}))
  /\ nops' = nops + 1
  /\ UNCHANGED obs

TimerATick(limit) ==
  /\ nops < limit
  /\ chip' = ymf271_timer_a_tick(chip)
  /\ last' = Call("timer_a", 0, 0)
  /\ nops' = nops + 1
  /\ UNCHANGED obs

TimerBTick(limit) ==
  /\ nops < limit
  /\ chip' = ymf271_timer_b_tick(chip)
  /\ last' = Call("timer_b", 0, 0)
  /\ nops' = nops + 1
  /\ UNCHANGED obs

\* ymf271_alloc_rom and ymf271_write_rom of the whole image
load_rom(c) == ymf271_write_rom(ymf271_alloc_rom(c, Len(RomImage)), 0, RomImage)

LoadRom(limit) ==
  /\ nops < limit
  /\ chip' = load_rom(chip)
  /\ last' = Call("rom", 0, 0)
  /\ nops' = nops + 1
  /\ UNCHANGED obs

\* ymf271_update of one sample
Update(limit) ==
  /\ nops < limit
  /\ \E r \in {ymf271_update(chip, 1)} :
       /\ chip' = r.c
       /\ obs' = [outputs |-> r.outputs, acc |-> r.acc, ops |-> r.ops,
                  fetches |-> r.fetches, accs |-> r.accs]
  /\ last' = Call("update", 1, 0)
  /\ nops' = nops + 1

\* ------------------------------------------------------------------------
\* Spec: the register front-end from power-on
\* ------------------------------------------------------------------------
MaxOps == 4

\* (offset, data) pairs the host writes: FM addresses 0x00, 0x90, 0xA0, 0xC0,
\* 0xD0, 0xE0 of group 0 on the bank-0 port and 0xA0 on the bank-1 port, the
\* group / timer address 0x13, and data bytes
WriteInputs ==
  {<<0, 0>>, <<0, 144>>, <<0, 160>>, <<0, 192>>, <<0, 208>>, <<0, 224>>, <<1, 53>>,
   <<2, 160>>, <<3, 18>>, <<12, 19>>, <<13, 12>>, <<13, 1>>}

Init ==
  /\ chip = device_start_ymf271
  /\ last = Call("start", 0, 0)
  /\ obs = NoObs
  /\ nops = 0

Next ==
  \/ \E in \in WriteInputs : W(MaxOps, in[1], in[2])
  \/ Reset(MaxOps)
  \/ TimerATick(MaxOps)
  \/ TimerBTick(MaxOps)
  \/ LoadRom(MaxOps)
  \/ Update(MaxOps)

Spec == Init /\ [][Next]_vars

\* ------------------------------------------------------------------------
\* Host programming sequences: voices set up through the register ports
\* ------------------------------------------------------------------------
\* the low address nibble that fm_tab maps to group g, and pcm_tab to slot 4g
GroupNibble(g) == g + (g \div 3)

\* register writes s[1 .. n], each an address written to an even port and a
\* data byte written to the odd port after it
RECURSIVE host_writes(_, _, _)
host_writes(c, s, n) ==
  IF n = 0
  THEN c
  ELSE Then(host_writes(c, s, n - 1),
            LAMBDA v : ymf271_w(ymf271_w(v, s[n][1], s[n][2]), s[n][1] + 1, s[n][3]))

\* the chip with the sample ROM loaded
Board == load_rom(device_start_ymf271)

\* a PCM voice on slot s (a multiple of 4): its group in sync mode 3, the
\* sample addresses, 8 or 12 bits; then multiple 1 (one sample per output
\* sample), total level, waveform 7 with the accumulator flag, channel 0 and
\* 1 levels, key-on
pcm_addresses(c, s, v) ==
  host_writes(c,
    << <<12, GroupNibble(s % 12), 3>>,
       <<8, GroupNibble(s \div 4), v.startaddr>>,
       <<8, 32 + GroupNibble(s \div 4), v.altloop * 128>>,
       <<8, 48 + GroupNibble(s \div 4), v.endaddr>>,
       <<8, 96 + GroupNibble(s \div 4), v.loopaddr>>,
       <<8, 144 + GroupNibble(s \div 4), IF v.bits = 12 THEN 4 ELSE 0>> >>, 6)

pcm_key_on(c, s, v) ==
  host_writes(c,
    << <<2 * (s \div 12), 48 + GroupNibble(s % 12), 1>>,
       <<2 * (s \div 12), 64 + GroupNibble(s % 12), v.tl>>,
       <<2 * (s \div 12), 176 + GroupNibble(s % 12), (v.accon * 128) + 7>>,
       <<2 * (s \div 12), 208 + GroupNibble(s % 12), v.level * 17>>,
       <<2 * (s \div 12), GroupNibble(s % 12), 1>> >>, 5)

PcmVoice(startaddr, loopaddr, endaddr, altloop, bits, accon, tl, level) ==
  [startaddr |-> startaddr, loopaddr |-> loopaddr, endaddr |-> endaddr,
   altloop |-> altloop, bits |-> bits, accon |-> accon, tl |-> tl, level |-> level]

\* the voices of a set of boards x = [c, v] programmed on slot s, in two
\* stages
pcm_voice_on(X, s) ==
  {[c |-> pcm_key_on(y.c, s, y.v), v |-> y.v] :
     y \in {[c |-> pcm_addresses(x.c, s, x.v), v |-> x.v] : x \in X}}

\* looping voices on slot 0
LoopVoices ==
  {PcmVoice(st, lp, en, alt, bits, 0, 0, 0) :
     st \in {0, 1, 6}, lp \in {0, 1, 2}, en \in {2, 3, 4}, alt \in {0, 1}, bits \in {8, 12}}

LoopBoards == {x.c : x \in pcm_voice_on({[c |-> Board, v |-> v] : v \in LoopVoices}, 0)}

\* accumulator voices: one sample held (endaddr = loopaddr = 0), on slot 0
\* alone or on slots 0, 12, 24, 36 and 4 together
AccVoices ==
  {PcmVoice(st, 0, 0, 0, 8, 1, tl, level) :
     st \in {0, 1, 6, 7}, tl \in {0, 1, 8, 32, 127}, level \in {0, 4}}

AccSolo == pcm_voice_on({[c |-> Board, v |-> v] : v \in AccVoices}, 0)

AccChorus == pcm_voice_on(pcm_voice_on(pcm_voice_on(pcm_voice_on(AccSolo, 12), 24), 36), 4)

AccBoards == {x.c : x \in AccSolo \cup AccChorus}

\* an FM voice on group g: sync mode and PFM flag, block 3 and fns 0x240,
\* the algorithm, feedback 3, LFO frequency 255 and attack rate 31 on the
\* bank-0 slot, a sample end address for the bank-3 slot of groups 0 and 4,
\* key-on through bank 0 (and through bank 1, the second pair of sync 1)
fm_setup(c, g, v) ==
  host_writes(c,
    << <<12, GroupNibble(g), v.sync + (128 * v.pfm)>>,
       <<0, 160 + GroupNibble(g), 50>>,
       <<0, 144 + GroupNibble(g), 64>>,
       <<0, 192 + GroupNibble(g), v.algorithm>>,
       <<0, 176 + GroupNibble(g), 48>>,
       <<0, 16 + GroupNibble(g), 255>>,
       <<0, 80 + GroupNibble(g), 31>> >>, 7)

fm_key_on(c, g) ==
  host_writes(c,
    << <<8, 48 + GroupNibble((g + 36) \div 4), IF g % 4 = 0 THEN 20 ELSE 0>>,
       <<2, 144 + GroupNibble(g), 32>>,
       <<2, GroupNibble(g), 1>>,
       <<0, GroupNibble(g), 1>> >>, 4)

FmVoices ==
  {[sync |-> sync, pfm |-> pfm, algorithm |-> alg] :
     sync \in 0 .. 3, pfm \in {0, 1}, alg \in {0, 8}}

FmGroups == {0, 1, 4}

FmBoards ==
  {fm_key_on(x.c, x.g) :
     x \in {[c |-> fm_setup(Board, g, v), g |-> g] : g \in FmGroups, v \in FmVoices}}

\* ------------------------------------------------------------------------
\* SpecPlay: voices rendered sample by sample from their key-on
\* ------------------------------------------------------------------------
MaxSamples == 13

InitPlay ==
  /\ chip \in LoopBoards \cup AccBoards \cup FmBoards
  /\ last = Call("start", 0, 0)
  /\ obs = NoObs
  /\ nops = 0

NextPlay == Update(MaxSamples)

SpecPlay == InitPlay /\ [][NextPlay]_vars

\* ------------------------------------------------------------------------
\* SpecKeyOn: key-on, key-off, reset and timers on voices that are playing
\* ------------------------------------------------------------------------
MaxKeyOps == 4

\* an FM voice of group 0 in each sync mode, and one of group 1 in sync 1
KeyOnVoices ==
  {[g |-> 0, sync |-> sync, pfm |-> 0, algorithm |-> 0] : sync \in 0 .. 3}
    \cup {[g |-> 1, sync |-> 1, pfm |-> 0, algorithm |-> 0]}

KeyOnFm ==
  {fm_key_on(x.c, x.g) :
     x \in {[c |-> fm_setup(Board, v.g, v), g |-> v.g] : v \in KeyOnVoices}}

\* a three-sample loop on slots 0 and 4, the owners of end-status bits 0 and 4
KeyOnPcm ==
  {x.c : x \in pcm_voice_on(pcm_voice_on({[c |-> Board, v |-> PcmVoice(0, 0, 2, 0, 8, 0, 0, 0)]},
                                         4), 0)}

\* the boards with both timer interrupts enabled (register 0x13 = 0x0C) and
\* the bank-0 address port back on register 0x0 of the voice, after `samples'
\* output samples
playing(X, samples) ==
  {ymf271_update(y, samples).c :
     y \in {host_writes(c, << <<12, 19, 12>> >>, 1) : c \in X}}

KeyOnBoards == playing(KeyOnFm, 2) \cup playing(KeyOnPcm, 4)

\* data written to the FM data ports of banks 0, 1 and 2 (the address ports
\* hold register 0x0 of the voice's group): key-on and key-off
KeyOnInputs == {<<1, 1>>, <<1, 0>>, <<3, 1>>, <<5, 1>>}

InitKeyOn ==
  /\ chip \in KeyOnBoards
  /\ last = Call("start", 0, 0)
  /\ obs = NoObs
  /\ nops = 0

NextKeyOn ==
  \/ \E in \in KeyOnInputs : W(MaxKeyOps, in[1], in[2])
  \/ Reset(MaxKeyOps)
  \/ TimerATick(MaxKeyOps)
  \/ TimerBTick(MaxKeyOps)
  \/ Update(MaxKeyOps)

SpecKeyOn == InitKeyOn /\ [][NextKeyOn]_vars

\* ------------------------------------------------------------------------
\* Properties
\* ------------------------------------------------------------------------
\* C1: immediately after a reset, from whatever state, each of the 48 slots
\* has active = 0 and volume = 0, and status, irqstate, end_status, enable
\* and the busy flag are zero, so that status ports 0 and 1 both read 0
C1_ResetClearsChip ==
  last.op = "reset" =>
    /\ \A n \in Slots : chip.slots[n].active = 0 /\ chip.slots[n].volume = 0
    /\ chip.status = 0 /\ chip.irqstate = 0 /\ chip.end_status = 0
    /\ chip.enable = 0 /\ chip.busy_flag = 0
    /\ status_port0(chip) = 0 /\ status_port1(chip) = 0

\* a reset of a chip that had slots playing, a timer flag up and end flags
\* showing on both status ports
C1_ResetOfBusyChip ==
  /\ last.op = "reset"
  /\ last.a % 256 # 0 /\ last.a \div 256 # 0 /\ last.a % 4 # 0
  /\ last.b > 0
  /\ chip.regs_main[13] = 12

\* the FM write that produced this state: data byte last.b written to the
\* data port of `bank', the bank's address port holding register R of group g
FmBank == (last.a - 1) \div 2
FmAddress == chip.regs_main[last.a - 1]
FmReg == Bits(FmAddress, 4, 4)
FmGroup == fm_tab[Bits(FmAddress, 0, 4) + 1]
FmWrite == last.op = "w" /\ last.a \in {1, 3, 5, 7} /\ FmGroup # -1

\* the fields of a slot that the data byte of register R is decoded into
\* (register 0x9 carries the low byte of fns)
DecodedFields(R) ==
  CASE R = 0 -> {"ext_en", "ext_out"}
    [] R = 10 -> {"fns_hi"}
    [] R = 12 -> {"algorithm"}
    [] R = 13 -> {"ch0_level", "ch1_level"}
    [] R = 14 -> {"ch2_level", "ch3_level"}
    [] OTHER -> {}

\* a write of a synchronized register to the bank-0 slot of a sync-0 group
C2Write ==
  /\ FmWrite /\ FmBank = 0
  /\ FmReg \in {0, 9, 10, 12, 13, 14}
  /\ chip.groups[FmGroup].sync = 0

C2Members == {chip.slots[(12 * b) + FmGroup] : b \in 0 .. 3}

\* C2 as stated: after such a write the fields the register controls (fns
\* and block for 0x9) are identical on the four member slots
C2_FieldsIdentical ==
  C2Write =>
    \A s \in C2Members, t \in C2Members :
      /\ \A f \in DecodedFields(FmReg) : s[f] = t[f]
      /\ FmReg = 9 => s.fns = t.fns /\ s.block = t.block

\* C2, amended: after such a write the fields decoded from the data byte are
\* identical on the four member slots (for 0x9 the low byte of fns); bits
\* 8-11 of fns and block are each member's own fns_hi latch
C2_DecodedFieldsIdentical ==
  C2Write =>
    /\ \A s \in C2Members, t \in C2Members : \A f \in DecodedFields(FmReg) : s[f] = t[f]
    /\ FmReg = 9 =>
         \A s \in C2Members :
           /\ s.fns % 256 = last.b
           /\ s.fns \div 256 = s.fns_hi % 16
           /\ s.block = s.fns_hi \div 16

\* a write of 0x9 to a group whose bank-1 slot has its own fns_hi latched
C2_OwnLatch ==
  /\ C2Write /\ FmReg = 9 /\ last.b = 53
  /\ chip.slots[FmGroup].fns = 53
  /\ chip.slots[12 + FmGroup].fns = 565 /\ chip.slots[12 + FmGroup].block = 1

\* a key-on write (register 0x0, bit 0 set) to a sync leader
KeyOnLeader ==
  /\ FmWrite /\ FmReg = 0 /\ last.b % 2 = 1
  /\ \/ chip.groups[FmGroup].sync \in {0, 2} /\ FmBank = 0
     \/ chip.groups[FmGroup].sync = 1 /\ FmBank \in {0, 1}

\* the banks of the configuration that bank FmBank leads
KeyOnBanks ==
  CASE chip.groups[FmGroup].sync = 0 -> 0 .. 3
    [] chip.groups[FmGroup].sync = 1 -> {FmBank, FmBank + 2}
    [] chip.groups[FmGroup].sync = 2 -> 0 .. 2

\* C3: after a key-on write to a sync leader every member slot of its
\* configuration has stepptr = 0, loop_direction = +1, env_state = Attack,
\* volume = (255 - 160) << 16, lfo_phase = 0 and both feedback memories 0
C3_KeyOnInitialisesMembers ==
  KeyOnLeader =>
    \A b \in KeyOnBanks :
      LET s == chip.slots[(12 * b) + FmGroup]
      IN  /\ s.stepptr = [i |-> 0, f |-> 0]
          /\ s.loop_direction = 1
          /\ s.env_state = ENV_ATTACK
          /\ s.volume = 95 * 65536
          /\ s.lfo_phase = 0
          /\ s.feedback_modulation0 = 0 /\ s.feedback_modulation1 = 0

\* a key-on through bank 1 of a playing sync-1 group, after an output sample
C3_SecondPairKeyedOn ==
  /\ KeyOnLeader /\ FmBank = 1 /\ chip.groups[FmGroup].sync = 1
  /\ nops = 2 /\ obs.ops # << >>
  /\ chip.slots[FmGroup].stepptr.i > 0

\* the ROM reads of the last update, from both kernels
FetchReads ==
  UNION {{obs.fetches[m].reads[n] : n \in DOMAIN obs.fetches[m].reads} : m \in DOMAIN obs.fetches}

\* C4: for every PCM or PFM sample fetch the index used to read the ROM
\* array is in [0, mem_size), and a requested address that is, masked to 23
\* bits, at or beyond mem_size yields the byte 0 instead of a memory read
C4_RomReadsInBounds ==
  \A r \in FetchReads :
    /\ r.index # -1 => r.index >= 0 /\ r.index < chip.mem_size
    /\ (r.offset % 8388608) >= chip.mem_size => r.index = -1 /\ r.value = 0

\* an update in which the PFM kernel asked for an address beyond the ROM and
\* the PCM or PFM kernel read a byte inside it
C4_FetchBeyondRom ==
  /\ \E m \in DOMAIN obs.fetches :
       /\ obs.fetches[m].kernel = "pfm"
       /\ \E n \in DOMAIN obs.fetches[m].reads :
            obs.fetches[m].reads[n].offset >= chip.mem_size
  /\ \E r \in FetchReads : r.index # -1 /\ r.value # 0

\* the voice of slot 0 in sync mode 3 that plays one sample per output
\* sample, n output samples after its key-on: the fetch made for it
PcmVoiceOnSlot0 ==
  /\ last.op = "update"
  /\ chip.groups[0].sync = 3
  /\ chip.slots[0].active # 0 /\ chip.slots[0].waveform = 7 /\ chip.slots[0].accon = 0
  /\ chip.slots[0].step = 65536
  /\ Len(obs.fetches) = 1 /\ obs.fetches[1].slot = 0

SampleNo == nops - 1
Fetched == obs.fetches[1]

\* the 16-bit sample of the 8-bit ROM byte at offset o (0 beyond the ROM)
RomSample(o) == IF o < Len(RomImage) THEN ToINT16(RomImage[o + 1] * 256) ELSE 0

C5Voice ==
  /\ PcmVoiceOnSlot0
  /\ chip.slots[0].bits = 8 /\ chip.slots[0].altloop = 0
  /\ chip.slots[0].startaddr = 0 /\ chip.slots[0].loopaddr = 0 /\ chip.slots[0].endaddr = 4

\* C5 as stated: the ROM bytes fetched after key-on are bytes 0, 1, 2, 3, 4
\* repeated with period 5, the samples 0x8000, 0x9000, 0xA000, 0xB000, 0xC000
C5_PeriodFive ==
  C5Voice =>
    /\ Fetched.reads[1].index = SampleNo % 5
    /\ Fetched.sample = ToINT16(<<32768, 36864, 40960, 45056, 49152>>[(SampleNo % 5) + 1])

\* C5, amended: the ROM bytes fetched after key-on are bytes 0, 1, 2, 3, 4
\* and then bytes 1, 2, 3, 4 repeated with period 4 (the byte at loopaddr is
\* played on the first pass only): sample 0x8000, then 0x9000, 0xA000,
\* 0xB000, 0xC000 repeating
C5_PeriodFour ==
  C5Voice =>
    LET byte == IF SampleNo <= 4 THEN SampleNo ELSE 1 + ((SampleNo - 5) % 4)
    IN  /\ Fetched.reads[1].index = byte
        /\ Fetched.sample = ToINT16(<<32768, 36864, 40960, 45056, 49152>>[byte + 1])

\* the tenth sample of that voice: byte 1 again, four samples after byte 1
C5_SecondPass == C5Voice /\ SampleNo = 9 /\ Fetched.reads[1].index = 1 /\ Fetched.sample = -28672

C6Voice ==
  /\ PcmVoiceOnSlot0
  /\ chip.slots[0].bits = 8 /\ chip.slots[0].altloop = 0
  /\ chip.slots[0].loopaddr <= chip.slots[0].endaddr
  /\ chip.slots[0].endaddr - chip.slots[0].loopaddr >= 1

\* C6 as stated: after the first endaddr - startaddr samples (of a voice
\* whose endaddr is not below startaddr) the fetched sequence is the one
\* starting at loopaddr, periodic with period L = endaddr - loopaddr
C6_LoopFromLoopaddr ==
  C6Voice =>
    LET s == chip.slots[0]
        first == s.endaddr - s.startaddr
        pos == s.loopaddr + ((SampleNo - first) % (s.endaddr - s.loopaddr))
    IN  first >= 0 /\ SampleNo >= first =>
          Fetched.pos = pos /\ Fetched.sample = RomSample(s.startaddr + pos)

\* C6, amended: the first endaddr + 1 samples are those at indices
\* 0 .. endaddr (counted from startaddr); after them the fetched sequence is
\* the one starting at index loopaddr + 1, periodic with period L
C6_LoopFromLoopaddrPlusOne ==
  C6Voice =>
    LET s == chip.slots[0]
        pos == IF SampleNo <= s.endaddr
               THEN SampleNo
               ELSE s.loopaddr + 1 + ((SampleNo - s.endaddr - 1) % (s.endaddr - s.loopaddr))
    IN  Fetched.pos = pos /\ Fetched.sample = RomSample(s.startaddr + pos)

\* the second pass of a three-sample loop that starts at ROM byte 1
C6_SecondLoopPass ==
  /\ C6Voice
  /\ chip.slots[0].startaddr = 1 /\ chip.slots[0].loopaddr = 1 /\ chip.slots[0].endaddr = 4
  /\ SampleNo = 8 /\ Fetched.pos = 2 /\ Fetched.sample = RomSample(3)

C7Voice ==
  /\ PcmVoiceOnSlot0
  /\ chip.slots[0].altloop = 1
  /\ chip.slots[0].loopaddr < chip.slots[0].endaddr

\* C7 as stated: once the sample at index endaddr has been produced the
\* following samples are those at endaddr - 1, endaddr - 2, ... down to
\* loopaddr, endaddr not being repeated
C7_ReversesWithoutRepeat ==
  C7Voice =>
    LET s == chip.slots[0]
        k == SampleNo - s.endaddr
    IN  /\ SampleNo <= s.endaddr => Fetched.pos = SampleNo
        /\ k >= 1 /\ k <= s.endaddr - s.loopaddr => Fetched.pos = s.endaddr - k

\* C7, amended: once the sample at index endaddr has been produced it is
\* produced a second time as the direction reverses, and the following
\* samples are those at endaddr - 1, endaddr - 2, ... down to loopaddr
C7_ReversesRepeatingEnd ==
  C7Voice =>
    LET s == chip.slots[0]
        k == SampleNo - s.endaddr - 1
    IN  /\ SampleNo <= s.endaddr => Fetched.pos = SampleNo
        /\ k >= 0 /\ k <= s.endaddr - s.loopaddr => Fetched.pos = s.endaddr - k

\* the reverse pass of a voice with loopaddr 1 and endaddr 4 arriving at
\* loopaddr
C7_BackAtLoopaddr ==
  /\ C7Voice
  /\ chip.slots[0].loopaddr = 1 /\ chip.slots[0].endaddr = 4
  /\ SampleNo = 8 /\ Fetched.pos = 1 /\ chip.slots[0].loop_direction = -1

\* the accumulator inputs of the last update
AccInputs == {obs.accs[m] : m \in DOMAIN obs.accs}

\* C8: with accon = 1 the value one PCM slot adds to an acc_buffer entry in
\* one sample has absolute value <= 131071, and every acc_buffer entry stays
\* within [-131072, 131071] however many accon slots are accumulated into it
C8_AccumulatorSaturates ==
  /\ \A e \in AccInputs : \A k \in 1 .. 4 : e.adds[k] >= -131071 /\ e.adds[k] <= 131071
  /\ \A i \in DOMAIN obs.acc : \A k \in 1 .. 4 :
       obs.acc[i][k] >= ACC_18BIT_MIN /\ obs.acc[i][k] <= ACC_18BIT_MAX

\* five accon slots whose inputs sum beyond 18 bits: the entry stands at
\* the upper limit
C8_FiveSlotsSaturate ==
  /\ Len(obs.accs) = 5
  /\ obs.accs[1].adds[1] + obs.accs[2].adds[1] + obs.accs[3].adds[1]
       + obs.accs[4].adds[1] + obs.accs[5].adds[1] > ACC_18BIT_MAX
  /\ obs.acc[0][1] = ACC_18BIT_MAX

\* the sample fetched for the slot of accumulator input e
AccSample(e) == (CHOOSE f \in {obs.fetches[m] : m \in DOMAIN obs.fetches} : f.slot = e.slot).sample
\* k = 2 * max(1, tl)
AccFactor(e) == 2 * Max(1, chip.slots[e.slot].tl)

\* C9 as stated: the accumulator input of a slot is sat18((sample * k) >> 2),
\* the shift applied before the clamp (130048 for sample 32512 and tl 8)
C9_ShiftThenClamp ==
  \A e \in AccInputs : e.output = sat18(Sar(AccSample(e) * AccFactor(e), 2))

\* C9, amended: the accumulator input of a slot is sat18(sample * k) >> 2
\* with k = 2 * max(1, tl), the 18-bit clamp applied before the shift by 2:
\* 32767 for sample 32512 and tl 8, and 32767 for tl 32
C9_ClampThenShift ==
  /\ \A e \in AccInputs : e.output = Sar(sat18(AccSample(e) * AccFactor(e)), 2)
  /\ \A e \in AccInputs :
       AccSample(e) = 32512 /\ chip.slots[e.slot].tl \in {8, 32} => e.output = 32767

\* sample 32512 at total level 8: the product 520192 is clamped to 131071
C9_ClampedAtTl8 ==
  \E e \in AccInputs :
    AccSample(e) = 32512 /\ chip.slots[e.slot].tl = 8 /\ e.output = 32767

\* the groups in which the PFM kernel may run
PfmGroup(c, j) == j \in {0, 4, 8} /\ c.groups[j].pfm = 1 /\ c.groups[j].sync # 3

\* the chip with the pfm flag cleared in every other group
pfm_cleared(c) ==
  [c EXCEPT !.groups = [j \in Groups |->
     IF PfmGroup(c, j) THEN c.groups[j] ELSE [c.groups[j] EXCEPT !.pfm = 0]]]

CarrierSlots(j) ==
  LET cfgs == fm_configs(chip.groups[j].sync, j)
      running == {c \in {cfgs[n] : n \in DOMAIN cfgs} : chip.slots[c.slotmap[1]].active # 0}
      program(c) == c.algs[(chip.slots[c.slotmap[1]].algorithm % c.mask) + 1]
  IN  UNION {{c.slotmap[program(c)[n].s] :
                n \in {m \in DOMAIN program(c) : program(c)[m].k \in {"car", "alt"}}} :
             c \in running}

\* in the last update slot s took its output sample from the ROM
ReadFromRom(s) ==
  /\ \E m \in DOMAIN obs.ops : obs.ops[m].slot = s /\ obs.ops[m].kernel = "pfm"
  /\ \E m \in DOMAIN obs.fetches :
       obs.fetches[m].slot = s /\ obs.fetches[m].kernel = "pfm" /\ obs.fetches[m].reads # << >>

\* in the last update slot s took its output sample from a waveform table
ReadFromWavetable(s) ==
  /\ \E m \in DOMAIN obs.ops : obs.ops[m].slot = s /\ obs.ops[m].kernel = "fm"
  /\ \A m \in DOMAIN obs.fetches : obs.fetches[m].slot # s

MaxBusOps == 4

\* (offset, data) pairs the host writes: on the group / timer ports the
\* addresses of group 0 (0x0), of group 11 (0xE) and of the timer control
\* register (0x13), then data bytes with the PFM bit, a sync mode, the timer
\* and IRQ enables and the timer A reset bit; on the bank-0 FM ports the
\* key-on register of group 0 and an address of no group; on the PCM ports
\* an address of no slot
BusInputs ==
  {<<12, 0>>, <<12, 14>>, <<12, 19>>,
   <<13, 129>>, <<13, 2>>, <<13, 15>>, <<13, 16>>,
   <<0, 0>>, <<0, 147>>, <<1, 33>>,
   <<8, 19>>, <<9, 5>>}

\* set_irq_callback(instance, fn, userdata) of the external interface, with
\* a non-null fn
set_irq_callback(c) == [c EXCEPT !.irq_handler = TRUE]

\* the chip as started, without or with an IRQ callback
InitBus ==
  /\ chip \in {device_start_ymf271, set_irq_callback(device_start_ymf271)}
  /\ last = Call("start", 0, 0)
  /\ obs = NoObs
  /\ nops = 0

NextBus ==
  \/ \E in \in BusInputs : W(MaxBusOps, in[1], in[2])
  \/ TimerATick(MaxBusOps)
  \/ TimerBTick(MaxBusOps)

SpecBus == InitBus /\ [][NextBus]_vars

\* ------------------------------------------------------------------------
\* C12
\* ------------------------------------------------------------------------
\* data bytes of a group-control write: sync modes with and without the PFM
\* bit, and bytes with the unused bits 2-6 set
GroupData == {0, 2, 129, 131, 124, 255}

\* the host latches address a on port 0xC and writes d to port 0xD
timer_port_write(c, a, d) == ymf271_w(ymf271_w(c, 12, a), 13, d)

\* the groups after pfm and sync of group g were stored from data byte d
GroupStored(c, g, d) ==
  [c.groups EXCEPT ![g] = [c.groups[g] EXCEPT !.pfm = d \div 128, !.sync = d % 4]]

timer_tick(c, t) == IF t = 0 THEN ymf271_timer_a_tick(c) ELSE ymf271_timer_b_tick(c)

\* the expiry of timer t took chip c to c2 raising its IRQ: status bit t and
\* pending bit t set, the callback (if any) called once more, with level 1
IrqRaised(c, c2, t) ==
  c2 = [c EXCEPT !.status = SetBits(c.status, t, 1, 1),
                 !.irqstate = SetBits(c.irqstate, t, 1, 1),
                 !.irq_log = IF c.irq_handler THEN Append(c.irq_log, 1) ELSE c.irq_log]

\* the expiry of timer t took chip c to c2 without an IRQ: no pending bit
\* changed, no callback call
NoIrqRaised(c, c2, t) ==
  /\ c2.irqstate = c.irqstate
  /\ c2.irq_log = c.irq_log

\* C16: when timer A (t = 0) or B (t = 1) expires with its IRQ-enable bit
\* (0x13 bit 2 + t) set, status bit t becomes set, pending-IRQ bit t is raised
\* and the callback, if non-null, is called with level 1 (with a null callback
\* the status bit is still set); with the enable bit clear no IRQ is raised.
C16_ExpiryRaisesEnabledIrq ==
  \A t \in {0, 1} :
    IF Bits(chip.enable, 2 + t, 1) = 1
    THEN IrqRaised(chip, timer_tick(chip, t), t)
    ELSE NoIrqRaised(chip, timer_tick(chip, t), t)

\* timer A has just expired with its IRQ enabled and a callback installed:
\* the callback got level 1
C16_TimerAIrqDelivered ==
  /\ last = Call("timer_a", 0, 0)
  /\ chip.irq_handler
  /\ Bits(chip.enable, 2, 1) = 1
  /\ chip.irq_log = <<1>>
  /\ Bits(chip.status, 0, 1) = 1
  /\ Bits(chip.irqstate, 0, 1) = 1

\* ------------------------------------------------------------------------
\* C17
\* ------------------------------------------------------------------------
\* data bytes of a write to register 0x13 with a reset bit: each reset alone
\* and both, without and with enable bits
TimerResetData == {16, 32, 48, 31, 47, 63}

\* the levels the callback (if any) gets when the chip c is written d to
\* register 0x13: a reset deasserts the line unless the other timer's IRQ is
\* (still) pending
DeassertCalls(c, d) ==
  (IF Bits(d, 4, 1) = 1 /\ Bits(c.irqstate, 1, 1) = 0 THEN <<0>> ELSE << >>)
    \o (IF Bits(d, 5, 1) = 1 /\ (Bits(d, 4, 1) = 1 \/ Bits(c.irqstate, 0, 1) = 0)
        THEN <<0>> ELSE << >>)

\* the write of d to register 0x13 took chip c to c2 clearing the flags of
\* the timers whose reset bit is set in d
TimerFlagsCleared(c, c2, d) ==
  \A t \in {0, 1} :
    IF Bits(d, 4 + t, 1) = 1
    THEN /\ Bits(c2.status, t, 1) = 0
         /\ Bits(c2.irqstate, t, 1) = 0
         /\ Bits(status_port0(c2), t, 1) = 0
    ELSE /\ Bits(c2.status, t, 1) = Bits(c.status, t, 1)
         /\ Bits(c2.irqstate, t, 1) = Bits(c.irqstate, t, 1)

\* C17 as stated: a write to register 0x13 with bit 4 (bit 5) set clears
\* status bit 0 (bit 1) and the pending IRQ of timer A (B) and deasserts the
\* IRQ line; status port 0 then shows the timer flag as 0.
C17_ResetAlwaysDeasserts ==
  \A d \in TimerResetData :
    /\ TimerFlagsCleared(chip, timer_port_write(chip, 19, d), d)
    /\ chip.irq_handler =>
          /\ timer_port_write(chip, 19, d).irq_log # chip.irq_log
          /\ timer_port_write(chip, 19, d).irq_log[Len(timer_port_write(chip, 19, d).irq_log)] = 0

\* C17, amended: a write to register 0x13 with bit 4 (bit 5) set clears
\* status bit 0 (bit 1) and the pending IRQ of timer A (B); it deasserts the
\* IRQ line (calls the callback, if non-null, with level 0) unless the other
\* timer's IRQ is still pending; status port 0 then shows the timer flag as 0,
\* whatever the state before the write.
C17_ResetDeassertsUnlessOtherPending ==
  \A d \in TimerResetData :
    /\ TimerFlagsCleared(chip, timer_port_write(chip, 19, d), d)
    /\ timer_port_write(chip, 19, d).irq_log =
          IF chip.irq_handler THEN chip.irq_log \o DeassertCalls(chip, d) ELSE chip.irq_log

\* timer A expired with its IRQ enabled and a callback installed, and the
\* write of 0x10 to register 0x13 has just reset it: flag and pending bit are
\* clear and the callback got level 1, then level 0
C17_TimerAResetAfterIrq ==
  /\ last = Call("w", 13, 16)
  /\ chip.regs_main[12] = 19
  /\ chip.irq_log = <<1, 0>>
  /\ chip.status = 0 /\ chip.irqstate = 0
  /\ Bits(status_port0(chip), 0, 1) = 0

\* ------------------------------------------------------------------------
\* C18
\* ------------------------------------------------------------------------
AddressPorts == {0, 2, 4, 6, 8, 12}

\* the chip after the write of d to data port o reached the handler of that
\* port with the address `address'
data_port_write(c, o, address, d) ==
  CASE o \in {1, 3, 5, 7} -> ymf271_write_fm([c EXCEPT !.regs_main[o] = d], (o - 1) \div 2, address, d)
    [] o = 9 -> ymf271_write_pcm([c EXCEPT !.regs_main[o] = d], address, d)
    [] o = 13 -> ymf271_write_timer([c EXCEPT !.regs_main[o] = d], address, d)

\* C18: a write to a data port (1, 3, 5, 7, 9, 0xD) acts on the address held
\* by its own address port (0, 2, 4, 6, 8, 0xC); a write to any port leaves
\* the addresses held by the other address ports as they are, so that address
\* is the one most recently written there; and a write to an address port
\* changes nothing but the address it holds.
C18_DataPortUsesOwnLatch ==
  [][last'.op = "w" =>
       /\ \A p \in AddressPorts \ {last'.a} : chip'.regs_main[p] = chip.regs_main[p]
       /\ last'.a \in AddressPorts => chip' = [chip EXCEPT !.regs_main[last'.a] = last'.b]
       /\ last'.a \in {1, 3, 5, 7, 9, 13} =>
            chip' = data_port_write(chip, last'.a, chip.regs_main[last'.a - 1], last'.b)]_vars

\* register 0x0 of group 0 was latched on port 0, then the timer ports 0xC
\* and 0xD were written, and the data write on port 1 has still keyed on
\* slot 0
C18_KeyOnAfterTimerWrites ==
  /\ last = Call("w", 1, 33)
  /\ nops = 4
  /\ chip.regs_main[0] = 0
  /\ chip.regs_main[12] = 19 /\ chip.regs_main[13] = 15 /\ chip.enable = 15
  /\ chip.slots[0].active = 1

\* ------------------------------------------------------------------------
\* SpecEnv: envelopes rendered through attack, decay and release, one sample
\* at a time and in chunks
\* ------------------------------------------------------------------------
MaxEnvOps == 5

\* samples of a chunked update
EnvChunk == 4

\* samples rendered after the key-off of a released voice: from the key-on
\* level the fastest release ends in the 94th sample
ReleasedSamples == 92

\* ymf271_update of a chunk of `samples' output samples
UpdateChunk(limit, samples) ==
  /\ nops < limit
  /\ \E r \in {ymf271_update(chip, samples)} :
       /\ chip' = r.c
       /\ obs' = [outputs |-> r.outputs, acc |-> r.acc, ops |-> r.ops,
                  fetches |-> r.fetches, accs |-> r.accs]
  /\ last' = Call("update", samples, 0)
  /\ nops' = nops + 1

\* the envelope registers of slot s: attack rate, decay 1 rate, decay 2 rate,
\* release rate and decay 1 level
env_setup(c, s, v) ==
  host_writes(c,
    << <<2 * (s \div 12), 80 + GroupNibble(s % 12), v.ar>>,
       <<2 * (s \div 12), 96 + GroupNibble(s % 12), v.decay1rate>>,
       <<2 * (s \div 12), 112 + GroupNibble(s % 12), v.decay2rate>>,
       <<2 * (s \div 12), 128 + GroupNibble(s % 12), v.relrate + (16 * v.decay1lvl)>> >>, 4)

\* envelopes: one that stays at the key-on level until its fastest release,
\* one with the fastest attack, no decay 1 and the fastest decay 2, one with
\* the fastest attack and a decay 1 down to the lowest level
EnvVoices ==
  {[ar |-> 0, decay1rate |-> 0, decay2rate |-> 0, relrate |-> 15, decay1lvl |-> 0],
   [ar |-> 31, decay1rate |-> 31, decay2rate |-> 31, relrate |-> 15, decay1lvl |-> 0],
   [ar |-> 31, decay1rate |-> 31, decay2rate |-> 0, relrate |-> 8, decay1lvl |-> 15]}

\* a held one-sample PCM voice on slot 0, with and without the accumulator
\* flag, under each envelope
EnvPcm ==
  {x.c : x \in pcm_voice_on({[c |-> env_setup(Board, 0, e),
                              v |-> PcmVoice(0, 0, 0, 0, 8, accon, 0, 0)] :
                               e \in EnvVoices, accon \in {0, 1}}, 0)}

\* a 4-operator FM voice on group 0 whose bank-0 slot has each envelope
EnvFm ==
  {fm_key_on(env_setup(fm_setup(Board, 0, [sync |-> 0, pfm |-> 0, algorithm |-> 0]), 0, e), 0) :
     e \in EnvVoices}

\* n updates of `samples' output samples each
RECURSIVE play_chunks(_, _, _)
play_chunks(c, samples, n) ==
  CASE n = 0 -> c
    [] n = 1 -> ymf271_update(c, samples).c
    [] OTHER -> Then(play_chunks(c, samples, n \div 2),
                     LAMBDA v : play_chunks(v, samples, n - (n \div 2)))

\* the voices keyed off at the key-on level and rendered to just before the
\* end of their release
EnvReleased ==
  {play_chunks(ymf271_w(c, 1, 0), EnvChunk, ReleasedSamples \div EnvChunk) :
     c \in {x \in EnvPcm \cup EnvFm : x.slots[0].ar = 0}}

InitEnv ==
  /\ chip \in EnvPcm \cup EnvFm \cup EnvReleased
  /\ last = Call("start", 0, 0)
  /\ obs = NoObs
  /\ nops = 0

\* key-off of the voice (the bank-0 address port holds its register 0x0),
\* single samples and chunks
NextEnv ==
  \/ W(MaxEnvOps, 1, 0)
  \/ Update(MaxEnvOps)
  \/ UpdateChunk(MaxEnvOps, EnvChunk)

SpecEnv == InitEnv /\ [][NextEnv]_vars

\* ------------------------------------------------------------------------
\* C13
\* ------------------------------------------------------------------------
DecayStates == {ENV_DECAY1, ENV_DECAY2, ENV_RELEASE}

\* C13: from one sample to the next, with no register write in between, the
\* envelope volume of a slot does not decrease while its env_state is Attack
\* and does not increase while its env_state is Decay1, Decay2 or Release.
C13_EnvelopeMonotone ==
  [][last'.op = "update" /\ last'.a = 1 =>
       \A s \in Slots :
         /\ chip.slots[s].env_state = ENV_ATTACK =>
              chip'.slots[s].volume >= chip.slots[s].volume
         /\ chip.slots[s].env_state \in DecayStates =>
              chip'.slots[s].volume <= chip.slots[s].volume]_vars

\* slot 0 went up through its attack to the peak and is now below it, after
\* its first sample of decay 2
C13_DecayedFromPeak ==
  /\ last = Call("update", 1, 0)
  /\ chip.slots[0].active = 1
  /\ chip.slots[0].env_state = ENV_DECAY2
  /\ chip.slots[0].volume = (255 * Pow2(ENV_VOLUME_SHIFT)) - chip.slots[0].env_decay2_step
  /\ chip.slots[0].env_decay2_step > 0

\* ------------------------------------------------------------------------
\* C14
\* ------------------------------------------------------------------------
\* the update_pcm iterations of the last update made with the slot inactive:
\* the iteration in which its envelope ended and those after it
EndedIterations == {n \in DOMAIN obs.fetches : obs.fetches[n].kernel = "pcm" /\ obs.fetches[n].active = 0}

\* C14 as stated: in Decay1, Decay2 or Release a slot whose volume has reached
\* <= 0 is inactive, and from the sample in which that happened onward (the
\* remaining samples of that chunk included) what it adds to mix_buffer or
\* acc_buffer is exactly 0.
C14_EndedSlotAddsZero ==
  /\ \A s \in Slots :
       chip.slots[s].env_state \in DecayStates /\ chip.slots[s].volume <= 0 =>
         chip.slots[s].active = 0
  /\ last.op = "update" =>
       \A n \in EndedIterations : \A k \in 1 .. 4 : obs.fetches[n].adds[k] = 0


\* ------------------------------------------------------------------------
\* SpecDrop: writes through addresses that name no group and no slot, on
\* idle and on playing chips
\* ------------------------------------------------------------------------
MaxDropOps == 2

\* (offset, data) pairs the host writes: the addresses 0x03 and 0x00 on the
\* bank-0 FM port, 0x07 on the PCM port, 0x0B and 0x13 on the group / timer
\* port, and data bytes with the key-on bit and the PFM bit
DropInputs ==
  {<<0, 3>>, <<0, 0>>, <<1, 1>>, <<8, 7>>, <<9, 5>>, <<12, 11>>, <<12, 19>>, <<13, 129>>}

InitDrop ==
  /\ chip \in {device_start_ymf271} \cup KeyOnBoards
  /\ last = Call("start", 0, 0)
  /\ obs = NoObs
  /\ nops = 0

NextDrop == \E in \in DropInputs : W(MaxDropOps, in[1], in[2])

SpecDrop == InitDrop /\ [][NextDrop]_vars

\* ------------------------------------------------------------------------
\* C19
\* ------------------------------------------------------------------------
\* low nibbles whose fm_tab / pcm_tab entry is -1
InvalidNibbles == {3, 7, 11, 15}

\* data bytes of a dropped write: nothing, the key-on bit, the PFM bit with
\* a sync mode, all ones
DropData == {0, 1, 129, 255}

\* latching address a on port p and writing d to the data port p + 1 changes
\* nothing but the two port latches
Dropped(c, p, a, d) ==
  ymf271_w(ymf271_w(c, p, a), p + 1, d) = [c EXCEPT !.regs_main[p] = a, !.regs_main[p + 1] = d]

C20_SilentWithoutRom ==
  [][last'.op = "update" /\ ~chip.mem_alloc =>
       /\ chip' = chip
       /\ \A i \in DOMAIN obs'.outputs : obs'.outputs[i] = <<0, 0>>]_vars

\* slot 0 is keyed on, no ROM is allocated, and a sample has just been
\* rendered
C20_KeyedOnWithoutRom ==
  /\ last.op = "update"
  /\ ~chip.mem_alloc
  /\ chip.slots[0].active = 1
  /\ obs.outputs[0] = <<0, 0>>

\* ------------------------------------------------------------------------
\* SpecMute: the mute mask on boards with voices in groups 0, 4 and 8
\* ------------------------------------------------------------------------
MaxMuteOps == 4

\* masks: none, single groups, groups in pairs, all twelve, and bits above
\* bit 11
MuteMasks == {0, 1, 16, 17, 256, 272, 4095, 4096 + 16}

\* ymf271_set_mute_mask(mask)
SetMuteMask(limit, mask) ==
  /\ nops < limit
  /\ chip' = ymf271_set_mute_mask(chip, mask)
  /\ last' = Call("mute", mask, 0)
  /\ nops' = nops + 1
  /\ UNCHANGED obs

\* an FM voice on group 0 (4 operators, or 3 operators and the PCM slot 36),
\* a held accumulator voice on slot 4 and a looping mixer voice on slot 8
MuteFm ==
  {fm_key_on(fm_setup(Board, 0, [sync |-> sync, pfm |-> 0, algorithm |-> 0]), 0) :
     sync \in {0, 2}}

MuteBoards ==
  {x.c : x \in pcm_voice_on(
                 {[c |-> y.c, v |-> PcmVoice(0, 0, 2, 0, 8, 0, 0, 0)] :
                    y \in pcm_voice_on({[c |-> c, v |-> PcmVoice(1, 0, 0, 0, 8, 1, 0, 0)] :
                                          c \in MuteFm}, 4)}, 8)}

InitMute ==
  /\ chip \in MuteBoards
  /\ last = Call("start", 0, 0)
  /\ obs = NoObs
  /\ nops = 0

NextMute ==
  \/ \E mask \in MuteMasks : SetMuteMask(MaxMuteOps, mask)
  \/ Update(MaxMuteOps)

SpecMute == InitMute /\ [][NextMute]_vars

\* ------------------------------------------------------------------------
\* C21
\* ------------------------------------------------------------------------
\* the groups a chip has muted, and the slots of a set of groups
MutedGroups(c) == {g \in Groups : c.groups[g].Muted # 0}

SlotsOf(G) == {s \in Slots : (s % NumGroups) \in G}

\* the chip with no group muted and every slot of the groups G keyed off
\* and idle
without_groups(c, G) ==
  [c EXCEPT !.groups = [g \in Groups |-> [c.groups[g] EXCEPT !.Muted = 0]],
            !.slots = [s \in Slots |->
                         IF s \in SlotsOf(G) THEN [c.slots[s] EXCEPT !.active = 0]
                         ELSE c.slots[s]]]

\* an update that rendered r left the groups G out: their slots are as
\* before, no kernel ran for them, and frames, accumulator, end status and
\* the other slots are those of the reference rendering ref
LeftOut(c, G, r, c2, ref) ==
  /\ \A s \in SlotsOf(G) : c2.slots[s] = c.slots[s]
  /\ \A s \in Slots \ SlotsOf(G) : c2.slots[s] = ref.c.slots[s]
  /\ c2.end_status = ref.c.end_status
  /\ r.outputs = ref.outputs
  /\ r.acc = ref.acc
  /\ \A k \in DOMAIN r.ops : r.ops[k].slot \notin SlotsOf(G)
  /\ \A k \in DOMAIN r.fetches : r.fetches[k].slot \notin SlotsOf(G)
  /\ \A k \in DOMAIN r.accs : r.accs[k].slot \notin SlotsOf(G)

\* C21: set_mute_mask(mask) makes the Muted flag of every group g in 0..11
\* bit g of mask and changes nothing else; an update then leaves the muted
\* groups out, whatever the state of their slots (their slots do not move,
\* no kernel runs for them, nothing of theirs is in mix_buffer or
\* acc_buffer), and renders the other groups exactly as if the muted groups
\* were idle.
C21_MutedGroupsAddNothing ==
  [][/\ last'.op = "mute" =>
          /\ \A g \in Groups : chip'.groups[g].Muted = (last'.a \div Pow2(g)) % 2
          /\ [chip' EXCEPT !.groups = chip.groups] = chip
          /\ \A g \in Groups : [chip'.groups[g] EXCEPT !.Muted = 0]
                                 = [chip.groups[g] EXCEPT !.Muted = 0]
     /\ last'.op = "update" =>
          LeftOut(chip, MutedGroups(chip), obs', chip',
                  ymf271_update(without_groups(chip, MutedGroups(chip)), 1))]_vars

\* group 4 is muted while its accumulator voice on slot 4 is keyed on, and
\* the sample just rendered has sound of another group in it and nothing in
\* the accumulator
C21_MutedVoiceSilent ==
  /\ last.op = "update"
  /\ chip.groups[4].Muted = 1
  /\ chip.groups[8].Muted = 0
  /\ chip.slots[4].active = 1
  /\ chip.slots[4].accon = 1
  /\ obs.outputs[0] # <<0, 0>>
  /\ obs.accs = << >>
  /\ \E k \in DOMAIN obs.fetches : obs.fetches[k].slot = 8

\* ------------------------------------------------------------------------
\* SpecChunk: the chunk loop of ymf271_update on chips started with a
\* given clock.  The tables init_tables builds depend on the clock, so the
\* chips here stay as device_start_ymf271 leaves them (no ROM, no slot keyed
\* on): their chunks consult no table.
\* ------------------------------------------------------------------------
MaxChunkCalls == 2
MaxChunkSamples == 8

\* chip clocks: below 3840 (rate / 10 = 0), and with chunks of 1, 2, 3 and 4
\* frames
Clocks == {384, 3839, 3840, 7680, 11520, 15360}

\* device_start_ymf271 with cfg->clock = clock: mixbuf_smpls = rate / 10
device_start_clock(clock) ==
  device_start_ymf271 @@ [clock |-> clock, mixbuf_smpls |-> (clock \div 384) \div 10]

\* proc_smpls of the iteration at smpl_ofs
proc_smpls(c, samples, smpl_ofs) == Min(samples - smpl_ofs, c.mixbuf_smpls)

\* outputs[..][smpl_ofs + i] = frame i of the chunk
store_frames(outputs, smpl_ofs, frames, proc) ==
  [i \in 0 .. (smpl_ofs + proc) - 1 |->
     IF i < smpl_ofs THEN outputs[i] ELSE frames[i - smpl_ofs]]

\* the host calls ymf271_update(samples): smpl_ofs = 0
UpdateCall(samples) ==
  /\ last.op \in {"start", "returned"}
  /\ nops < MaxChunkCalls
  /\ last' = Call("update_loop", 0, samples)
  /\ obs' = [NoObs EXCEPT !.outputs = [i \in {} |-> <<0, 0>>]]
  /\ nops' = nops + 1
  /\ UNCHANGED chip

\* one iteration of for (smpl_ofs = 0; smpl_ofs < samples; smpl_ofs += proc_smpls)
ChunkStep ==
  /\ last.op = "update_loop"
  /\ last.a < last.b
  /\ \E proc \in {proc_smpls(chip, last.b, last.a)} :
       \E r \in {ymf271_update(chip, proc)} :
         /\ chip' = r.c
         /\ obs' = [obs EXCEPT !.outputs = store_frames(obs.outputs, last.a, r.outputs, proc)]
         /\ last' = Call("update_loop", last.a + proc, last.b)
  /\ UNCHANGED nops

\* the loop condition fails: ymf271_update returns
UpdateReturn ==
  /\ last.op = "update_loop"
  /\ last.a >= last.b
  /\ last' = Call("returned", last.b, 0)
  /\ UNCHANGED <<chip, obs, nops>>

InitChunk ==
  /\ chip \in {device_start_clock(clock) : clock \in Clocks}
  /\ last = Call("start", 0, 0)
  /\ obs = NoObs
  /\ nops = 0

NextChunk ==
  \/ \E samples \in 0 .. MaxChunkSamples : UpdateCall(samples)
  \/ ChunkStep
  \/ UpdateReturn

\* once called, ymf271_update keeps executing: the loop takes its next
\* iteration or returns
SpecChunk == InitChunk /\ [][NextChunk]_vars /\ WF_vars(ChunkStep \/ UpdateReturn)

\* ------------------------------------------------------------------------
\* C22
\* ------------------------------------------------------------------------
\* C22: for every chip clock accepted by start and every samples >= 0, a
\* call update(samples) terminates, having produced exactly `samples' output
\* frames, in chunks of at most mixbuf_smpls = (clock / 384) / 10 frames.
C22_UpdateTerminates ==
  /\ (last.op = "update_loop") ~> (last.op = "returned")
  /\ [](last.op = "returned" => DOMAIN obs.outputs = 0 .. last.a - 1)

\* ------------------------------------------------------------------------
\* C23
\* ------------------------------------------------------------------------
\* C23: after any sequence of key-on, key-off and updates (single samples
\* and chunks) every slot has 0 <= volume <= 255 << 16, so the envelope
\* table index 255 - (volume >> 16) that calculate_slot_volume uses lies in
\* 0 .. 255.
C23_VolumeInRange ==
  \A s \in Slots :
    /\ chip.slots[s].volume >= 0
    /\ chip.slots[s].volume <= 255 * 65536
    /\ (255 - Sar(chip.slots[s].volume, ENV_VOLUME_SHIFT)) \in 0 .. 255

\* the release of slot 0 has just taken its volume below zero: the slot
\* ended at volume 0
C23_ReleaseEndedAtZero ==
  /\ last.op = "update"
  /\ chip.slots[0].env_state = ENV_RELEASE
  /\ chip.slots[0].env_release_step > 0
  /\ chip.slots[0].active = 0
  /\ chip.slots[0].volume = 0
  /\ \E n \in DOMAIN obs.fetches \cup DOMAIN obs.ops :
       \/ n \in DOMAIN obs.fetches /\ obs.fetches[n].slot = 0
       \/ n \in DOMAIN obs.ops /\ obs.ops[n].slot = 0

\* ------------------------------------------------------------------------
\* SpecRead: the read ports on boards with timer and end flags
\* ------------------------------------------------------------------------
MaxReadOps == 4

\* case 0x2 of ymf271_r: the external-memory read latch, stepping the
\* address, when ext_rw is set
ext_read(c) ==
  IF c.ext_rw = 0
  THEN [ret |-> 255, c |-> c]
  ELSE LET a == (c.ext_address + 1) % (ADDR_MASK + 1)
       IN  [ret |-> c.ext_readlatch,
            c |-> [c EXCEPT !.ext_address = a,
                            !.ext_readlatch = ymf271_read_memory(c, a).value]]

\* a status read that clears the flags it returns
ymf271_r_clears_flags(c, offset) ==
  CASE Bits(offset, 0, 4) = 0 ->
         [ret |-> status_port0(c),
          c |-> [c EXCEPT !.status = 0, !.end_status = (c.end_status \div 16) * 16]]
    [] Bits(offset, 0, 4) = 1 ->
         [ret |-> status_port1(c) % 256, c |-> [c EXCEPT !.end_status = c.end_status % 16]]
    [] Bits(offset, 0, 4) = 2 -> ext_read(c)
    [] OTHER -> [ret |-> 255, c |-> c]

\* ymf271_r: the byte returned and the chip afterwards
ymf271_r(c, offset) ==
  CASE Bits(offset, 0, 4) = 0 -> [ret |-> status_port0(c), c |-> c]
    [] Bits(offset, 0, 4) = 1 -> [ret |-> status_port1(c) % 256, c |-> c]
    [] Bits(offset, 0, 4) = 2 -> ext_read(c)
    [] OTHER -> [ret |-> 255, c |-> c]

\* ymf271_r(offset)
R(limit, offset) ==
  /\ nops < limit
  /\ \E r \in {ymf271_r(chip, offset)} :
       /\ chip' = r.c
       /\ last' = Call("r", offset, r.ret)
  /\ nops' = nops + 1
  /\ UNCHANGED obs

\* ports read: both status ports, the external-memory port, a port that
\* does not exist, and port 0 through offset 0x10
ReadPorts == {0, 1, 2, 3, 16}

\* writes: external-memory read mode (register 0x16 = 0x80), timer flag
\* reset (register 0x13 = 0x3C)
ReadInputs == {<<12, 22>>, <<13, 128>>, <<12, 19>>, <<13, 60>>}

InitRead ==
  /\ chip \in KeyOnBoards
  /\ last = Call("start", 0, 0)
  /\ obs = NoObs
  /\ nops = 0

NextRead ==
  \/ \E offset \in ReadPorts : R(MaxReadOps, offset)
  \/ \E in \in ReadInputs : W(MaxReadOps, in[1], in[2])
  \/ TimerATick(MaxReadOps)
  \/ TimerBTick(MaxReadOps)
  \/ Update(MaxReadOps)

SpecRead == InitRead /\ [][NextRead]_vars

\* ------------------------------------------------------------------------
\* C24
\* ------------------------------------------------------------------------
\* the status ports
StatusPorts == {o \in ReadPorts : o % 16 \in {0, 1}}

\* C24: a read of port 0 returns (busy << 7) | ((end_status & 0xF) << 3) |
\* status and a read of port 1 returns end_status >> 4; neither changes
\* anything of the chip (no timer flag, no end flag is cleared), so a second
\* read right after the first returns the same value.
C24_StatusReadsChangeNothing ==
  [][last'.op = "r" /\ last'.a \in StatusPorts =>
       /\ chip' = chip
       /\ last'.a % 16 = 0 =>
            /\ last'.b \div 128 = chip.busy_flag
            /\ (last'.b \div 8) % 16 = chip.end_status % 16
            /\ last'.b % 8 = chip.status
       /\ last'.a % 16 = 1 => last'.b = chip.end_status \div 16
       /\ last.op = "r" /\ last.a % 16 = last'.a % 16 => last'.b = last.b]_vars

\* port 0 has just been read with the Timer A flag and the end flag of
\* slot 0 set, and both are still set
C24_FlagsStillSetAfterRead ==
  /\ last.op = "r"
  /\ last.a = 0
  /\ last.b % 2 = 1
  /\ (last.b \div 8) % 2 = 1
  /\ chip.status % 2 = 1
  /\ chip.end_status % 2 = 1

\* ------------------------------------------------------------------------
\* SpecFm: FM register writes through the four bank ports, to groups in
\* every sync mode
\* ------------------------------------------------------------------------
MaxFmOps == 3

\* the synchronized registers 0x0, 0x9, 0xA, 0xC, 0xD, 0xE, and registers
\* 0x4 (total level) and 0xB (waveform, feedback), which are not
FmRegisters == {0, 4, 9, 10, 11, 12, 13, 14}

\* the keyed-on FM voices with a register of the voice's group latched on
\* the address ports of all four banks
latch_banks(c, address) ==
  ymf271_w(ymf271_w(ymf271_w(ymf271_w(c, 0, address), 2, address), 4, address), 6, address)

FmLatched ==
  {latch_banks(fm_key_on(fm_setup(Board, v.g, v), v.g), (16 * reg) + GroupNibble(v.g)) :
     v \in KeyOnVoices, reg \in FmRegisters}

\* data bytes to the data port of each bank (bit 0 set and clear)
FmInputs == {<<p, d>> : p \in {1, 3, 5, 7}, d \in {1, 6}}

InitFm ==
  /\ chip \in FmLatched
  /\ last = Call("start", 0, 0)
  /\ obs = NoObs
  /\ nops = 0

NextFm == \E in \in FmInputs : W(MaxFmOps, in[1], in[2])

SpecFm == InitFm /\ [][NextFm]_vars

\* ------------------------------------------------------------------------
\* C25
\* ------------------------------------------------------------------------
\* the banks an FM write of register reg through `bank' is to reach in a
\* group in mode `sync'
WrittenBanks(sync, bank, reg) ==
  IF reg \in {0, 9, 10, 12, 13, 14}
  THEN CASE sync = 0 /\ bank = 0 -> {0, 1, 2, 3}
         [] sync = 1 /\ bank = 0 -> {0, 2}
         [] sync = 1 /\ bank = 1 -> {1, 3}
         [] sync = 2 /\ bank = 0 -> {0, 1, 2}
         [] OTHER -> {bank}
  ELSE {bank}

\* slot s holds what the data byte of register reg decodes to; a key-on
\* leaves it active, in its attack
HoldsData(s, reg, data) ==
  CASE reg = 0 -> /\ s.ext_en = data \div 128
                  /\ s.ext_out = (data \div 8) % 16
                  /\ data % 2 = 1 => s.active = 1 /\ s.env_state = ENV_ATTACK
    [] reg = 4 -> s.tl = data % 128
    [] reg = 9 -> s.fns % 256 = data
    [] reg = 10 -> s.fns_hi = data
    [] reg = 11 -> s.waveform = data % 8 /\ s.feedback = (data \div 16) % 8 /\ s.accon = data \div 128
    [] reg = 12 -> s.algorithm = data % 16
    [] reg = 13 -> s.ch0_level = data \div 16 /\ s.ch1_level = data % 16
    [] reg = 14 -> s.ch2_level = data \div 16 /\ s.ch3_level = data % 16
    [] OTHER -> TRUE

\* an FM write of `data' through `bank' with `address' latched reached the
\* slots of the banks B of its group and no other slot
WroteBanks(c, c2, bank, address, data, B) ==
  LET g == fm_tab[(address % 16) + 1]
  IN  /\ \A s \in Slots : s \notin {g + (12 * b) : b \in B} => c2.slots[s] = c.slots[s]
      /\ \A b \in B : HoldsData(c2.slots[g + (12 * b)], address \div 16, data)

\* C25: an FM register write reaches exactly these slots of the addressed
\* group and leaves every other slot as it was: for a synchronized register
\* (0x0, 0x9, 0xA, 0xC, 0xD, 0xE) banks {0,1,2,3} if sync = 0 and bank = 0,
\* banks {0,2} if sync = 1 and bank = 0, banks {1,3} if sync = 1 and
\* bank = 1, banks {0,1,2} if sync = 2 and bank = 0; in every other case
\* (register not synchronized, bank not a leader, sync = 3) the addressed
\* slot only.  The members a leader key-on re-initialises are among the
\* slots its write reaches.
C25_FmWriteReachesSyncBanks ==
  [][last'.op = "w" /\ last'.a \in {1, 3, 5, 7}
       /\ fm_tab[(chip.regs_main[last'.a - 1] % 16) + 1] # -1 =>
       LET bank == (last'.a - 1) \div 2
           address == chip.regs_main[last'.a - 1]
           sync == chip.groups[fm_tab[(address % 16) + 1]].sync
       IN  WroteBanks(chip, chip', bank, address, last'.b,
                      WrittenBanks(sync, bank, address \div 16))]_vars

\* algorithm 6 written through bank 1 of the sync-1 group 1: banks 1 and 3
\* hold it, banks 0 and 2 do not
C25_SecondPairWritten ==
  /\ FmWrite /\ FmBank = 1 /\ FmReg = 12 /\ FmGroup = 1 /\ last.b = 6
  /\ chip.groups[1].sync = 1
  /\ chip.slots[13].algorithm = 6 /\ chip.slots[37].algorithm = 6
  /\ chip.slots[1].algorithm # 6 /\ chip.slots[25].algorithm # 6

\* ------------------------------------------------------------------------
\* C26
\* ------------------------------------------------------------------------
\* the member slots of the FM configurations of group j that run in an
\* update of chip c: those whose leader is active, in a group that is not
\* muted, with the ROM present
MemberSlots(c, j) ==
  LET cfgs == fm_configs(c.groups[j].sync, j)
  IN  IF group_muted(c, j) \/ rom_missing(c)
      THEN {}
      ELSE UNION {{cfgs[n].slotmap[k] : k \in DOMAIN cfgs[n].slotmap} :
                    n \in {m \in DOMAIN cfgs : c.slots[cfgs[m].slotmap[1]].active # 0}}

\* the kernel calls the last update made for slot s
KernelCalls(ops, s) == {m \in DOMAIN ops : ops[m].slot = s}

\* C26 as stated: in every sync mode, every algorithm and both PFM settings,
\* each member slot of an active FM configuration is evaluated exactly once
\* per output sample: one kernel call, its LFO phase advanced by one LFO
\* step and its stepptr by one step.
C26_MembersEvaluatedOnce ==
  [][last'.op = "update" =>
       \A j \in Groups : \A s \in MemberSlots(chip, j) :
         /\ Cardinality(KernelCalls(obs'.ops, s)) = 1
         /\ chip'.slots[s].lfo_phase = chip.slots[s].lfo_phase + chip'.slots[s].lfo_step
         /\ chip'.slots[s].stepptr = StepAdd(chip.slots[s].stepptr, chip'.slots[s].step)]_vars

\* ------------------------------------------------------------------------
\* SpecMod: FM voices whose feedback operator runs just over half a
\* wavetable period per output sample, so that its output sweeps the small
\* negative values while its envelope is still low
\* ------------------------------------------------------------------------
MaxModSamples == 6

\* the voices: sync mode, the low byte of fns of the bank-0 operator (block
\* 7, fns 0x800 + low, multiple 4: fns / 4 table entries per sample), the
\* feedback level of the bank-0 operator and the modulation level of the
\* bank-2 operator that takes its output
ModVoices ==
  {[sync |-> sync, pfm |-> 0, algorithm |-> 0, fns_lo |-> lo, fb |-> fb, ml |-> ml] :
     sync \in {0, 1, 2}, lo \in {4, 8, 16}, fb \in {0, 7}, ml \in {0, 4, 7}}

\* registers 0xA and 0x9 of the group through bank 0, multiple and feedback
\* of the bank-0 slot, modulation level of the bank-2 slot
mod_setup(c, g, v) ==
  host_writes(fm_setup(c, g, v),
    << <<0, 160 + GroupNibble(g), 120>>,
       <<0, 144 + GroupNibble(g), v.fns_lo>>,
       <<0, 48 + GroupNibble(g), 4>>,
       <<0, 176 + GroupNibble(g), 16 * v.fb>>,
       <<4, 176 + GroupNibble(g), 16 * v.ml>> >>, 5)

ModBoards == {fm_key_on(mod_setup(Board, 0, v), 0) : v \in ModVoices}

InitMod ==
  /\ chip \in ModBoards
  /\ last = Call("start", 0, 0)
  /\ obs = NoObs
  /\ nops = 0

NextMod == Update(MaxModSamples)

SpecMod == InitMod /\ [][NextMod]_vars

\* ------------------------------------------------------------------------
\* C27
\* ------------------------------------------------------------------------
\* the FM configurations of group j that run in an update of chip c
RunningConfigs(c, j) ==
  LET cfgs == fm_configs(c.groups[j].sync, j)
  IN  IF group_muted(c, j) \/ rom_missing(c)
      THEN {}
      ELSE {cfgs[n] : n \in {m \in DOMAIN cfgs : c.slots[cfgs[m].slotmap[1]].active # 0}}

\* the algorithm row a configuration runs
Program(c, cfg) == cfg.algs[(c.slots[cfg.slotmap[1]].algorithm % cfg.mask) + 1]

\* the steps of a row that take the output of other operators as input
ModulatedSteps(prog) ==
  {prog[n] : n \in {m \in DOMAIN prog : prog[m].k \in {"op", "car"} /\ prog[m].in \notin {FB, NONE}}}

\* the kernel call made for slot s in an update that made one call per slot
CallOf(ops, s) == ops[CHOOSE m \in DOMAIN ops : ops[m].slot = s]

\* the value of local variable `name' of a row: what the kernel call of the
\* operator step assigning it returned
LocalValue(ops, cfg, prog, name) ==
  CallOf(ops, cfg.slotmap[(CHOOSE st \in {prog[n] : n \in DOMAIN prog} :
                             st.k = "op" /\ st.dst = name).s]).ret

\* the upstream output passed to step st: the sum of its input locals
UpstreamOutput(ops, cfg, prog, st) ==
  IF Len(st.in) = 1
  THEN LocalValue(ops, cfg, prog, st.in[1])
  ELSE LocalValue(ops, cfg, prog, st.in[1]) + LocalValue(ops, cfg, prog, st.in[2])

\* C27 as stated: for every upstream operator output value v passed as
\* modulation input to calculate_op (-1 and -2 included), the phase
\* modulation applied is (v << 8) * modulation_level[feedback] of the
\* receiving slot, and the receiving slot's feedback memory is unchanged.
C27_ModulationFromUpstream ==
  [][last'.op = "update" =>
       \A j \in Groups : \A cfg \in RunningConfigs(chip, j) :
         \A st \in ModulatedSteps(Program(chip, cfg)) :
           LET s == cfg.slotmap[st.s]
               v == UpstreamOutput(obs'.ops, cfg, Program(chip, cfg), st)
           IN  /\ CallOf(obs'.ops, s).inp = v
               /\ CallOf(obs'.ops, s).slot_input
                    = (v * 256) * modulation_level[chip.slots[s].feedback + 1]
               /\ chip'.slots[s].feedback_modulation0 = chip.slots[s].feedback_modulation0
               /\ chip'.slots[s].feedback_modulation1 = chip.slots[s].feedback_modulation1]_vars

\* ------------------------------------------------------------------------
\* SpecFb: self-feedback of FM voices, rendered in chunks from the key-on
\* ------------------------------------------------------------------------
MaxFbOps == 3

\* samples of a chunk
FbChunk == 3

\* the voices of SpecMod with feedback levels 3 and 7 on the bank-0
\* operator, with and without PFM, in the algorithms 0 (feedback from the
\* bank-0 operator), 1 (feedback from the bank-2 operator) and 8 (the
\* bank-0 operator is itself a carrier)
FbVoices ==
  {[sync |-> sync, pfm |-> pfm, algorithm |-> alg, fns_lo |-> 4, fb |-> fb, ml |-> 0] :
     sync \in {0, 1, 2}, pfm \in {0, 1}, alg \in {0, 1, 8}, fb \in {3, 7}}

FbBoards == {fm_key_on(mod_setup(Board, 0, v), 0) : v \in FbVoices}

InitFb ==
  /\ chip \in FbBoards
  /\ last = Call("start", 0, 0)
  /\ obs = NoObs
  /\ nops = 0

NextFb == UpdateChunk(MaxFbOps, FbChunk)

SpecFb == InitFb /\ [][NextFb]_vars

\* ------------------------------------------------------------------------
\* C28
\* ------------------------------------------------------------------------
\* the operator kernel calls made for slot s, in order (one per sample for
\* an operator step)
OperatorCalls(ops, s) == SelectSeq(ops, LAMBDA e : e.slot = s /\ e.kernel = "fm")

\* the slot whose output a row hands to set_feedback
FeedbackSource(cfg, prog) ==
  LET steps == {prog[n] : n \in DOMAIN prog}
      fb == CHOOSE st \in steps : st.k = "fb"
  IN  cfg.slotmap[(CHOOSE st \in steps : st.k = "op" /\ st.dst = fb.src).s]

\* F: the values set_feedback stored for the leader of cfg in the samples
\* of one update
StoredFeedback(c, ops, cfg) ==
  LET calls == OperatorCalls(ops, FeedbackSource(cfg, Program(c, cfg)))
  IN  [n \in DOMAIN calls |->
         CDiv((calls[n].ret * 256) * feedback_level[c.slots[cfg.slotmap[1]].feedback + 1], 4)]

\* the last two elements of a sequence of at least two
LastTwo(s) == <<s[Len(s) - 1], s[Len(s)]>>

\* C28 as stated: the self-modulation input the feedback slot uses at sample
\* n after key-on is (F(n-1) + F(n-2)) / 2, F(k) being the value set_feedback
\* stored at sample k and 0 for the samples before the key-on.
C28_FeedbackAveragesTwoSamples ==
  [][last'.op = "update" =>
       \A j \in Groups : \A cfg \in RunningConfigs(chip, j) :
         LET before == IF last.op = "start"
                       THEN <<0, 0>>
                       ELSE LastTwo(StoredFeedback(chip, obs.ops, cfg))
             F == before \o StoredFeedback(chip, obs'.ops, cfg)
             used == OperatorCalls(obs'.ops, cfg.slotmap[1])
         IN  \A n \in DOMAIN used : used[n].slot_input = CDiv(F[n + 1] + F[n], 2)]_vars

\* ------------------------------------------------------------------------
\* SpecVol: calculate_slot_volume over the slot fields it reads
\* ------------------------------------------------------------------------
MaxVolOps == 1

\* LFO table positions: the start, the first steps, both sides of the middle
\* and the end of a period
LfoIndices == {0, 1, 2, 3, 127, 128, 255}

\* amplitudes the LFO step leaves in lfo_amplitude
LfoAmplitudes == {lut_alfo(wave, i) : wave \in 0 .. 3, i \in LfoIndices}

\* envelope volumes: silence, a fraction below one step, the key-on level of
\* a slow attack, the middle and the maximum
EnvVolumes ==
  {0, 65535, (255 - 160) * Pow2(ENV_VOLUME_SHIFT), 128 * Pow2(ENV_VOLUME_SHIFT),
   255 * Pow2(ENV_VOLUME_SHIFT)}

TotalLevels == {0, 1, 64, 127}

\* lfo_amplitude * depth is an int product; beyond INT32 it is undefined:
\* a build may keep the low 32 bits (imul, then sar) or compute the product
\* in the 64 bits of lfo_volume.  Both results, shifted right by 16.
lfo_attenuation_outcomes(amplitude, depth) ==
  IF amplitude <= 2147483647 \div depth
  THEN {lfo_attenuation(amplitude, depth)}
  ELSE {MulShr16(depth, amplitude) - 65536, MulShr16(depth, amplitude)}

\* the values calculate_slot_volume can return for a slot
calculate_slot_volume_outcomes(slot) ==
  LET depth == CASE slot.ams = 1 -> 33124
                 [] slot.ams = 2 -> 16742
                 [] slot.ams = 3 -> 4277
                 [] OTHER -> 0
      lfo_volumes == IF slot.ams = 0
                     THEN {65536}
                     ELSE {65536 - att : att \in lfo_attenuation_outcomes(slot.lfo_amplitude, depth)}
      env == lut_env_volume[(255 - Sar(slot.volume, ENV_VOLUME_SHIFT)) + 1]
  IN  {MulShr16(MulShr16(env, lfo_volume), lut_total_level[slot.tl + 1]) :
         lfo_volume \in lfo_volumes}

InitVol ==
  /\ \E ams \in 0 .. 3, amplitude \in LfoAmplitudes, tl \in TotalLevels, volume \in EnvVolumes :
       chip = [Board EXCEPT !.slots[0].ams = ams, !.slots[0].lfo_amplitude = amplitude,
                            !.slots[0].tl = tl, !.slots[0].volume = volume]
  /\ last = Call("start", 0, 0)
  /\ obs = NoObs
  /\ nops = 0

SlotVolume(limit) ==
  /\ nops < limit
  /\ \E ret \in calculate_slot_volume_outcomes(chip.slots[0]) :
       last' = Call("calculate_slot_volume", 0, ret)
  /\ nops' = nops + 1
  /\ UNCHANGED <<chip, obs>>

NextVol == SlotVolume(MaxVolOps)

SpecVol == InitVol /\ [][NextVol]_vars

\* ------------------------------------------------------------------------
\* C29
\* ------------------------------------------------------------------------
\* C29 as stated: with the product lfo_amplitude * C_ams computed in 32-bit
\* signed arithmetic, the volume calculate_slot_volume returns lies in
\* [0, 65536] for every ams, lfo_amplitude in [0, 65536], tl and envelope
\* volume in [0, 255 << 16].
C29_SlotVolumeOnlyAttenuates ==
  last.op = "calculate_slot_volume" => last.b \in 0 .. 65536

\* ------------------------------------------------------------------------
\* SpecLoop: PCM voices with loop addresses on either side of the end
\* address, at steps of half a sample, one sample and three samples
\* ------------------------------------------------------------------------
MaxLoopSamples == 8

\* voices on slot 0 whose loop address lies before, at and beyond the end
\* address
OddLoopVoices ==
  {PcmVoice(st, lp, en, alt, 8, 0, 0, 0) :
     st \in {0, 6}, lp \in {0, 2, 5, 200}, en \in {0, 2, 3}, alt \in {0, 1}}

\* the multiple field: 0 (x 0.5), 1 and 3
LoopMultiples == {0, 1, 3}

LoopSteps ==
  {host_writes(x.c, << <<0, 48 + GroupNibble(0), multiple>> >>, 1) :
     x \in pcm_voice_on({[c |-> Board, v |-> v] : v \in OddLoopVoices}, 0),
     multiple \in LoopMultiples}

InitLoop ==
  /\ chip \in LoopSteps
  /\ last = Call("start", 0, 0)
  /\ obs = NoObs
  /\ nops = 0

NextLoop == Update(MaxLoopSamples)

SpecLoop == InitLoop /\ [][NextLoop]_vars

\* ------------------------------------------------------------------------
\* C30
\* ------------------------------------------------------------------------
\* C30 as stated: for a PCM slot with any start, loop and end address (a
\* loop address beyond the end address included), any step and either
\* altloop setting, the sample index stepptr >> 16 of every fetch in
\* update_pcm is at most endaddr.
C30_FetchIndexWithinEnd ==
  \A m \in DOMAIN obs.fetches :
    obs.fetches[m].kernel = "pcm" =>
      ~PastEnd([i |-> obs.fetches[m].pos, f |-> 0], chip.slots[obs.fetches[m].slot].endaddr)

\* ------------------------------------------------------------------------
\* C31
\* ------------------------------------------------------------------------
\* the slot has turned round at its end address (its end flag is raised at
\* every pass of the end and cleared only by a key-on)
TurnedRound(c, s) == Bits(c.end_status, (s \div 12) + (((s % 12) \div 4) * 4), 1) = 1

\* C31 as stated: an altloop slot with loopaddr <= endaddr and a step > 0
\* ping-pongs after its first reversal: every fetch lies in loopaddr ..
\* endaddr, and a reverse step that took the position below loopaddr (below
\* zero included) turns the direction forward with the fetch at loopaddr.
C31_PingPongWithinLoop ==
  [][(/\ last'.op = "update"
      /\ chip.slots[0].altloop = 1
      /\ chip.slots[0].loopaddr <= chip.slots[0].endaddr
      /\ chip.slots[0].step > 0
      /\ TurnedRound(chip', 0))
     => \A m \in DOMAIN obs'.fetches :
          obs'.fetches[m].slot = 0 =>
            /\ obs'.fetches[m].pos \in chip.slots[0].loopaddr .. chip.slots[0].endaddr
            /\ (chip.slots[0].loop_direction < 0
                  /\ chip.slots[0].stepptr.i < chip.slots[0].loopaddr)
               => /\ obs'.fetches[m].pos = chip.slots[0].loopaddr
                  /\ chip'.slots[0].loop_direction > 0]_vars

\* ------------------------------------------------------------------------
\* SpecPfm: PFM carriers without modulation input, reading samples that
\* start at and after the start of the ROM
\* ------------------------------------------------------------------------
MaxPfmSamples == 8

\* the sample registers of the carrier slot s (a multiple of 4)
pfm_addresses(c, s, v) ==
  host_writes(c,
    << <<8, GroupNibble(s \div 4), v.startaddr>>,
       <<8, 48 + GroupNibble(s \div 4), v.endaddr>>,
       <<8, 96 + GroupNibble(s \div 4), v.loopaddr>>,
       <<8, 144 + GroupNibble(s \div 4), IF v.bits = 12 THEN 4 ELSE 0>> >>, 4)

PfmSamples ==
  {PcmVoice(st, lp, en, 0, bits, 0, 0, 0) :
     st \in {0, 2}, lp \in {0, 3}, en \in {4, 8}, bits \in {8, 12}}

\* group 0 as a four-operator voice with PFM enabled, in the algorithms 12
\* and 15 whose bank-3 carrier has no modulation input; the carrier slot 36
\* is given its sample after the key-on
PfmBoards ==
  {pfm_addresses(fm_key_on(fm_setup(Board, 0, [sync |-> 0, pfm |-> 1, algorithm |-> alg]), 0),
                 36, v) :
     alg \in {12, 15}, v \in PfmSamples}

InitPfm ==
  /\ chip \in PfmBoards
  /\ last = Call("start", 0, 0)
  /\ obs = NoObs
  /\ nops = 0

NextPfm == Update(MaxPfmSamples)

SpecPfm == InitPfm /\ [][NextPfm]_vars

\* ------------------------------------------------------------------------
\* C32
\* ------------------------------------------------------------------------
\* what the PCM playback engine reads for slot s at the slot's position:
\* the loop handling of update_pcm in forward direction, then the fetch
PcmEngineReads(c, s) ==
  LET c1 == pcm_loop([c EXCEPT !.slots[s].loop_direction = 1], s)
  IN  fetch_sample(c1, c1.slots[s], c1.slots[s].stepptr.i).reads

\* the fetches of the PFM kernel made with zero modulation input by slots
\* evaluated once in the sample
UnmodulatedPfmFetches(o) ==
  {m \in DOMAIN o.fetches :
     /\ o.fetches[m].kernel = "pfm"
     /\ Cardinality(KernelCalls(o.ops, o.fetches[m].slot)) = 1
     /\ \A k \in KernelCalls(o.ops, o.fetches[m].slot) : o.ops[k].slot_input = 0}

\* C32 as stated: with zero modulation input the PFM kernel reads, at every
\* position whose sample index is <= endaddr, the ROM bytes the PCM playback
\* engine reads for the same slot registers and position (startaddr + index,
\* or the packed 12-bit bytes); it wraps only beyond the end.
C32_PfmFetchesLikePcm ==
  [][last'.op = "update" =>
       \A m \in UnmodulatedPfmFetches(obs') :
         LET s == obs'.fetches[m].slot
         IN  chip.slots[s].stepptr.i \in 0 .. chip.slots[s].endaddr
               => obs'.fetches[m].reads = PcmEngineReads(chip, s)]_vars

\* ------------------------------------------------------------------------
\* SpecRelease: FM voices keyed off and rendered for as long as the host
\* keeps calling ymf271_update
\* ------------------------------------------------------------------------
\* the call counter stops here; rendering goes on
MaxReleaseOps == 2

\* samples of one update
ReleaseChunk == 4

\* release rates of the bank-0 slot and of the other slots of the group
ReleaseVoices ==
  {[sync |-> sync, leader |-> lr, member |-> mr] :
     sync \in {0, 1, 2}, lr \in {14, 15}, mr \in {14, 15}}

ReleaseEnv(rate) == [ar |-> 0, decay1rate |-> 0, decay2rate |-> 0, relrate |-> rate, decay1lvl |-> 0]

release_setup(c, v) ==
  env_setup(env_setup(env_setup(env_setup(c, 0, ReleaseEnv(v.leader)),
                                12, ReleaseEnv(v.member)),
                      24, ReleaseEnv(v.member)),
            36, ReleaseEnv(v.member))

ReleaseBoards ==
  {fm_key_on(release_setup(fm_setup(Board, 0, [sync |-> v.sync, pfm |-> 0, algorithm |-> 0]), v), 0) :
     v \in ReleaseVoices}

InitRelease ==
  /\ chip \in ReleaseBoards
  /\ last = Call("start", 0, 0)
  /\ obs = NoObs
  /\ nops = 0

\* the key-off: register 0x0 of group 0 written through bank 0 (and through
\* bank 1, the leader of the second pair of sync 1)
KeyOff ==
  /\ last.op = "start"
  /\ chip' = host_writes(chip, << <<0, GroupNibble(0), 0>>, <<2, GroupNibble(0), 0>> >>,
                         IF chip.groups[0].sync = 1 THEN 2 ELSE 1)
  /\ last' = Call("key_off", 0, 0)
  /\ obs' = NoObs
  /\ nops' = nops + 1

\* one more update; the call record alternates its last field, so that
\* every call changes the state
Render ==
  /\ last.op # "start"
  /\ \E r \in {ymf271_update(chip, ReleaseChunk)} :
       /\ chip' = r.c
       /\ obs' = [outputs |-> r.outputs, acc |-> r.acc, ops |-> r.ops,
                  fetches |-> r.fetches, accs |-> r.accs]
  /\ last' = Call("update", ReleaseChunk, 1 - last.b)
  /\ nops' = IF nops < MaxReleaseOps THEN nops + 1 ELSE nops

NextRelease == KeyOff \/ Render

\* the host keys the voice off and keeps rendering.  Render is enabled in
\* every state after the key-off and every Render step flips the call
\* record, so weak fairness of Render is that both kinds of call record
\* recur forever.
RenderedForever ==
  /\ []<>(last.op = "update" /\ last.b = 0)
  /\ []<>(last.op = "update" /\ last.b = 1)

SpecRelease == InitRelease /\ [][NextRelease]_vars /\ WF_vars(KeyOff) /\ RenderedForever

\* ------------------------------------------------------------------------
\* C33
\* ------------------------------------------------------------------------
\* slot s has just been keyed off with a release step that moves
KeyedOff(s) ==
  /\ last.op = "key_off"
  /\ chip.slots[s].active = 1
  /\ chip.slots[s].env_state = ENV_RELEASE
  /\ chip.slots[s].env_release_step > 0
  /\ ~rom_missing(chip)
  /\ ~group_muted(chip, s % 12)

\* C33 as stated: an active slot that received key-off with a non-zero
\* release step becomes inactive with volume 0 under repeated updates (ROM
\* present, group unmuted, no further writes); this holds for every member
\* slot of a sync 0/1/2 configuration, not only for the leader.
C33_KeyedOffSlotEnds ==
  \A s \in {0, 12, 24, 36} :
    KeyedOff(s) ~> (chip.slots[s].active = 0 /\ chip.slots[s].volume = 0)

\* ------------------------------------------------------------------------
\* SpecEnd: short PCM loops on slots with and without an end flag, with
\* status reads, key-ons and resets between the samples
\* ------------------------------------------------------------------------
MaxEndOps == 4

\* slots 0, 4, 16 and 44 own an end flag; slots 1 and 13 play PCM in group 1
EndSlots == {0, 1, 4, 13, 16, 44}

\* slots keyed on again while the voices play
RekeyedSlots == {0, 1, 4}

\* a one-sample and a two-sample loop, forward and alternating
EndVoices == {PcmVoice(0, 0, en, alt, 8, 0, 0, 0) : en \in {0, 1}, alt \in {0, 1}}

\* the voice on slot s: the group in sync mode 3, the sample addresses where
\* the slot has PCM registers (a multiple of 4), the key-on
end_voice(c, s, v) ==
  pcm_key_on(IF s % 4 = 0
             THEN pcm_addresses(c, s, v)
             ELSE host_writes(c, << <<12, GroupNibble(s % 12), 3>> >>, 1),
             s, v)

\* one voice, or the voice and a second one on slot 0
EndBoards ==
  {end_voice(Board, s, v) : s \in EndSlots, v \in EndVoices}
    \cup {end_voice(end_voice(Board, 0, v), s, v) : s \in {4, 16}, v \in EndVoices}

\* key-on of slot s: register 0x0 of its group written through its bank
KeyOn(limit, s) ==
  /\ nops < limit
  /\ chip' = host_writes(chip, << <<2 * (s \div 12), GroupNibble(s % 12), 1>> >>, 1)
  /\ last' = Call("key_on", s, 0)
  /\ nops' = nops + 1
  /\ UNCHANGED obs

InitEnd ==
  /\ chip \in EndBoards
  /\ last = Call("start", 0, 0)
  /\ obs = NoObs
  /\ nops = 0

NextEnd ==
  \/ Update(MaxEndOps)
  \/ \E port \in {0, 1} : R(MaxEndOps, port)
  \/ \E s \in RekeyedSlots : KeyOn(MaxEndOps, s)
  \/ Reset(MaxEndOps)

SpecEnd == InitEnd /\ [][NextEnd]_vars

\* ------------------------------------------------------------------------
\* C34
\* ------------------------------------------------------------------------
\* slot s is played by update_pcm and its forward position has passed its
\* end address: the next sample loops or turns round
PassesEnd(c, s) ==
  /\ ~group_muted(c, s % 12)
  /\ ~rom_missing(c)
  /\ \E n \in DOMAIN pcm_slots(c.groups[s % 12].sync, s % 12) :
       pcm_slots(c.groups[s % 12].sync, s % 12)[n] = s
  /\ c.slots[s].active # 0
  /\ c.slots[s].loop_direction > 0
  /\ PastEnd(c.slots[s].stepptr, c.slots[s].endaddr)

\* the end flags as the two status ports show them
VisibleEndFlags(c) == Bits(status_port0(c), 3, 4) + (16 * (status_port1(c) % 256))

\* the position of slot s in the flag scheme: its bank, plus 4 for every
\* fourth group
EndBit(s) == (s \div 12) + (((s % 12) \div 4) * 4)

\* C34 as stated: whenever the forward position of a PCM slot passes endaddr
\* during an update, an end-status bit for that slot is raised and shows in
\* the status ports, for every slot that can play PCM (every group 0 .. 11
\* and every bank).
C34_EndFlagRaisedForEverySlot ==
  [][last'.op = "update" =>
       \A s \in Slots :
         PassesEnd(chip, s) => Bits(VisibleEndFlags(chip'), EndBit(s), 1) = 1]_vars

\* ------------------------------------------------------------------------
\* C35
\* ------------------------------------------------------------------------
\* the slots that own an end flag
FlagSlots == {s \in Slots : s % 4 = 0}

RaisedFlags(c) == {s \in FlagSlots : Bits(c.end_status, EndBit(s), 1) = 1}

\* C35: an end flag once set stays set across updates, status reads and
\* writes to other slots; only a key-on of the slot that owns it or a reset
\* clears it; the flag-owning slots 0, 4, ..., 44 have distinct bits 0 .. 11
\* of end_status.
C35_EndFlagLatched ==
  [][/\ \A s \in RaisedFlags(chip) :
          ~(last'.op = "reset" \/ (last'.op = "key_on" /\ last'.a = s))
            => s \in RaisedFlags(chip')
     /\ \A s \in FlagSlots :
          /\ calculate_status_end([chip EXCEPT !.end_status = 0], s, 1).end_status = Pow2(EndBit(s))
          /\ EndBit(s) \in 0 .. 11
          /\ \A t \in FlagSlots : EndBit(s) = EndBit(t) => s = t]_vars

\* the flag of slot 0 is still up after the key-on of slot 4 cleared that
\* slot's own flag
C35_OtherFlagSurvivesKeyOn ==
  /\ last = Call("key_on", 4, 0)
  /\ 0 \in RaisedFlags(chip)
  /\ 4 \notin RaisedFlags(chip)
  /\ chip.slots[4].active = 1

\* ------------------------------------------------------------------------
\* SpecEdges: the envelopes of SpecEnv rendered one sample at a time, with
\* key-off and key-on writes and resets between the samples
\* ------------------------------------------------------------------------
MaxEdgeOps == 6

\* samples rendered after the key-on of a risen voice: the fastest attack
\* reaches the peak in the 12th sample
RisenSamples == 10

\* the voices with the fastest attack rendered to just below the peak
EnvRisen ==
  {play_chunks(c, 1, RisenSamples) :
     c \in {x \in EnvPcm \cup EnvFm : x.slots[0].ar = 31}}

InitEdges ==
  /\ chip \in EnvPcm \cup EnvFm \cup EnvReleased \cup EnvRisen
  /\ last = Call("start", 0, 0)
  /\ obs = NoObs
  /\ nops = 0

\* the bank-0 address port holds register 0x0 of the voice's group: data 0
\* is its key-off, data 1 its key-on
NextEdges ==
  \/ \E data \in {0, 1} : W(MaxEdgeOps, 1, data)
  \/ Update(MaxEdgeOps)
  \/ Reset(MaxEdgeOps)

SpecEdges == InitEdges /\ [][NextEdges]_vars

\* ------------------------------------------------------------------------
\* C36
\* ------------------------------------------------------------------------
\* a write of register 0x0 through bank 0 with bit 0 of the data clear / set
KeyOffWrite == last'.op = "w" /\ last'.a = 1 /\ chip.regs_main[0] \div 16 = 0 /\ last'.b % 2 = 0
KeyOnWrite == last'.op = "w" /\ last'.a = 1 /\ chip.regs_main[0] \div 16 = 0 /\ last'.b % 2 = 1

\* C36: env_state changes only along Attack -> Decay1 (the volume has
\* reached 255 << 16), Decay1 -> Decay2 (volume >> 16 <= 255 - decay1lvl * 16
\* and the envelope has not ended), any state -> Release (key-off write to an
\* active slot) and any state -> Attack (key-on); so Decay2 is never followed
\* by Decay1 and Release is left only by a key-on; a key-off write to an
\* inactive slot changes neither env_state nor active.
C36_EnvelopeEdges ==
  [][\A s \in Slots :
       LET old == chip.slots[s]
           new == chip'.slots[s]
       IN  /\ old.env_state # new.env_state =>
                \/ /\ old.env_state = ENV_ATTACK /\ new.env_state = ENV_DECAY1
                   /\ last'.op = "update"
                   /\ new.volume = 255 * Pow2(ENV_VOLUME_SHIFT)
                \/ /\ old.env_state = ENV_DECAY1 /\ new.env_state = ENV_DECAY2
                   /\ last'.op = "update"
                   /\ Sar(new.volume, ENV_VOLUME_SHIFT) <= 255 - (old.decay1lvl * 16)
                   /\ new.volume > 0
                \/ new.env_state = ENV_RELEASE /\ KeyOffWrite /\ old.active # 0
                \/ new.env_state = ENV_ATTACK /\ KeyOnWrite
           /\ KeyOffWrite /\ old.active = 0 =>
                new.env_state = old.env_state /\ new.active = old.active]_vars

\* slot 0 ran through attack and decay 1 into decay 2, was reset there, and
\* the key-off written to the idle slot left it in decay 2
C36_KeyOffLeftIdleSlot ==
  /\ last = Call("w", 1, 0)
  /\ chip.slots[0].active = 0
  /\ chip.slots[0].env_state = ENV_DECAY2

\* ------------------------------------------------------------------------
\* SpecSplit: the host renders a span of frames with two ymf271_update
\* calls and no write in between.  Each call is one chunk (the spans are
\* far below mixbuf_smpls = rate / 10 of a chip at its nominal clock), so
\* the two calls are also what one call of the whole span does on a chip
\* whose mixbuf_smpls equals the first call's length.
\* ------------------------------------------------------------------------
MaxSplitOps == 4

\* lengths of the two calls
SplitLengths == {1, 2}

\* ymf271_update(a), the first call of a pair; last.b keeps the chip the
\* pair started from
SplitFirst(a) ==
  /\ last.op \in {"start", "update_b"}
  /\ nops < MaxSplitOps
  /\ \E r \in {ymf271_update(chip, a)} :
       /\ chip' = r.c
       /\ obs' = [outputs |-> r.outputs, acc |-> r.acc, ops |-> r.ops,
                  fetches |-> r.fetches, accs |-> r.accs]
  /\ last' = Call("update_a", a, chip)
  /\ nops' = nops + 1

\* ymf271_update(b), the second call: its frames follow those of the first;
\* last.a is the length of the whole span
SplitSecond(b) ==
  /\ last.op = "update_a"
  /\ \E r \in {ymf271_update(chip, b)} :
       /\ chip' = r.c
       /\ obs' = [outputs |-> store_frames(obs.outputs, last.a, r.outputs, b), acc |-> r.acc, ops |-> r.ops,
                  fetches |-> r.fetches, accs |-> r.accs]
  /\ last' = Call("update_b", last.a + b, last.b)
  /\ nops' = nops + 1

InitSplit ==
  /\ chip \in EnvPcm \cup EnvFm \cup EnvReleased \cup EnvRisen
  /\ last = Call("start", 0, 0)
  /\ obs = NoObs
  /\ nops = 0

NextSplit ==
  \/ \E a \in SplitLengths : SplitFirst(a)
  \/ \E b \in SplitLengths : SplitSecond(b)

SpecSplit == InitSplit /\ [][NextSplit]_vars

\* ------------------------------------------------------------------------
\* C37
\* ------------------------------------------------------------------------
\* C37: update(a) followed by update(b) with no write in between gives the
\* output frames and the final chip state of one update(a + b) from the
\* same chip state (and so the result does not depend on where the chunk
\* boundaries of mixbuf_smpls fall).
C37_SplitUpdateTransparent ==
  last.op = "update_b" =>
    \E whole \in {ymf271_update(last.b, last.a)} :
      /\ whole.outputs = obs.outputs
      /\ whole.c = chip

\* ------------------------------------------------------------------------
\* SpecRegs: arbitrary bytes written to the sixteen ports
\* ------------------------------------------------------------------------
MaxRegOps == 2

\* every port offset
RegPorts == 0 .. 15

\* bytes written: as an address each register 0x0 .. 0xF of group 0 / slot 0
\* and the external-memory registers 0x14 .. 0x17; as data also 0xFF
RegBytes == {16 * r : r \in 0 .. 15} \cup {20, 21, 22, 23} \cup {255}

\* 0xFF written to every slot register of group 0 through each bank (0xA
\* before 0x9, so that block and fns take the high byte), to the PCM
\* registers of slot 0, to the external address and to the group register:
\* the chip with every register field at its largest value
AllOnesWrites ==
  [i \in 1 .. 56 |-> <<2 * ((i - 1) \div 14), 16 * (14 - ((i - 1) % 14)), 255>>]
  \o [i \in 1 .. 10 |-> <<8, 16 * (i - 1), 255>>]
  \o <<(<<12, 20, 255>>), (<<12, 21, 255>>), (<<12, 22, 255>>), (<<12, 0, 255>>)>>

\* the writes AllOnesWrites[first .. first + n - 1]
all_ones_from(c, first, n) == host_writes(c, SubSeq(AllOnesWrites, first, (first + n) - 1), n)

RegBoards ==
  {Then(Then(Then(Then(all_ones_from(Board, 1, 14),
                       LAMBDA v : all_ones_from(v, 15, 14)),
                  LAMBDA v : all_ones_from(v, 29, 14)),
             LAMBDA v : all_ones_from(v, 43, 14)),
        LAMBDA v : all_ones_from(v, 57, 14))}

InitRegs ==
  /\ chip \in RegBoards
  /\ last = Call("start", 0, 0)
  /\ obs = NoObs
  /\ nops = 0

NextRegs == \E offset \in RegPorts, data \in RegBytes : W(MaxRegOps, offset, data)

SpecRegs == InitRegs /\ [][NextRegs]_vars

\* ------------------------------------------------------------------------
\* C38
\* ------------------------------------------------------------------------
\* the key-scaled rates init_envelope derives from the slot's registers
KeyscaledRates(slot, keycode) ==
  {get_keyscaled_rate(slot.ar * 2, keycode, slot.keyscale),
   get_keyscaled_rate(slot.decay1rate * 2, keycode, slot.keyscale),
   get_keyscaled_rate(slot.decay2rate * 2, keycode, slot.keyscale),
   get_keyscaled_rate(slot.relrate * 4, keycode, slot.keyscale)}

\* C38: after any sequence of register writes every table index derived
\* from the slot and group registers is within bounds: tl < 128, channel
\* levels < 16, feedback < 8, waveform < 8, block < 16, multiple < 16,
\* detune < 8, keyscale < 4, lfowave < 4, pms < 8, ams < 4, sync < 4, the
\* internal and the external keycode in 0 .. 31, the key-scaled rates in
\* 0 .. 63, and startaddr, loopaddr, endaddr, ext_address < 2^23.
C38_IndicesInBounds ==
  /\ \A s \in Slots :
       LET slot == chip.slots[s]
           internal == get_internal_keycode(slot.block, slot.fns)
           external == get_external_keycode(slot.block, slot.fns % 2048, slot.srcb, slot.srcnote)
       IN  /\ slot.tl \in 0 .. 127
           /\ {slot.ch0_level, slot.ch1_level, slot.ch2_level, slot.ch3_level} \subseteq 0 .. 15
           /\ slot.feedback \in 0 .. 7
           /\ slot.waveform \in 0 .. 7
           /\ slot.block \in 0 .. 15
           /\ slot.multiple \in 0 .. 15
           /\ slot.detune \in 0 .. 7
           /\ slot.keyscale \in 0 .. 3
           /\ slot.lfowave \in 0 .. 3
           /\ slot.pms \in 0 .. 7
           /\ slot.ams \in 0 .. 3
           /\ internal \in 0 .. 31
           /\ external \in 0 .. 31
           /\ KeyscaledRates(slot, internal) \cup KeyscaledRates(slot, external) \subseteq 0 .. 63
           /\ {slot.startaddr, slot.loopaddr, slot.endaddr} \subseteq 0 .. ADDR_MASK
  /\ \A g \in 0 .. NumGroups - 1 : chip.groups[g].sync \in 0 .. 3
  /\ chip.ext_address \in 0 .. ADDR_MASK

\* every register of slot 0 holds its largest value and 0xFF was written to
\* the high end-address register once more
C38_AllOnesWritten ==
  /\ last = Call("w", 9, 255)
  /\ chip.regs_main[8] = 80
  /\ chip.slots[0].tl = 127
  /\ chip.slots[0].block = 15
  /\ chip.slots[0].keyscale = 3
  /\ chip.slots[0].srcb = 7
  /\ chip.slots[0].endaddr = ADDR_MASK
  /\ chip.groups[0].sync = 3

\* ------------------------------------------------------------------------
\* SpecRom: ymf271_write_rom with 32-bit offsets and lengths.  A UINT32 is
\* kept as its two 16-bit halves [h, l].
\* ------------------------------------------------------------------------
MaxRomOps == 2

U32(n) == [h |-> n \div 65536, l |-> n % 65536]

\* x + y in UINT32 arithmetic (the carry out of bit 31 is dropped)
Add32(x, y) ==
  LET l == x.l + y.l
  IN  [h |-> (x.h + y.h + (l \div 65536)) % 65536, l |-> l % 65536]

\* x - y in UINT32 arithmetic
Sub32(x, y) ==
  LET l == x.l - y.l
  IN  [h |-> ((x.h - y.h - (IF l < 0 THEN 1 ELSE 0)) + 65536) % 65536, l |-> (l + 65536) % 65536]

Gt32(x, y) == x.h > y.h \/ (x.h = y.h /\ x.l > y.l)

\* the value of a UINT32 below 2^31
Val32(x) == (x.h * 65536) + x.l

\* the length ymf271_write_rom hands to memcpy
write_rom_length(c, offset, length) ==
  IF Gt32(Add32(offset, length), U32(c.mem_size))
  THEN Sub32(U32(c.mem_size), offset)
  ELSE length

\* memcpy(mem_base + offset, data, length) stays inside the bank
copy_inside(c, offset, length) ==
  LET end == Add32(offset, length)
  IN  ~Gt32(offset, end) /\ ~Gt32(end, U32(c.mem_size))

\* byte i of the host's buffer
RomPatch(i) == (17 * (i % 15)) + 1

\* offsets and lengths the host passes: inside the bank, at its end, past
\* it, and so large that offset + length wraps
RomOffsets == {U32(0), U32(4), U32(8), U32(9), [h |-> 65535, l |-> 65535]}
RomLengths == {U32(0), U32(1), U32(4), U32(8), U32(9),
               [h |-> 65535, l |-> 65528], [h |-> 65535, l |-> 65534], [h |-> 65535, l |-> 65535]}

\* ymf271_write_rom(offset, length, data).  A memcpy that runs past the end
\* of the bank is a heap overflow: the call faults, or returns with the
\* bank filled up to its end (what the bytes past the end hit is not part
\* of the chip record).  last.b is the length handed to memcpy.
WriteRom(offset, length) ==
  /\ last.op # "write_rom_fault"
  /\ nops < MaxRomOps
  /\ nops' = nops + 1
  /\ UNCHANGED obs
  /\ IF Gt32(offset, U32(chip.mem_size))
     THEN /\ chip' = chip
          /\ last' = Call("write_rom_skipped", offset, length)
     ELSE \E copied \in {write_rom_length(chip, offset, length)} :
            IF copy_inside(chip, offset, copied)
            THEN /\ chip' = ymf271_write_rom(chip, Val32(offset),
                                             [i \in 1 .. Val32(copied) |-> RomPatch(i)])
                 /\ last' = Call("write_rom", offset, copied)
            ELSE \E fault \in BOOLEAN :
                   /\ chip' = IF fault
                              THEN chip
                              ELSE ymf271_write_rom(chip, Val32(offset),
                                     [i \in 1 .. chip.mem_size - Val32(offset) |-> RomPatch(i)])
                   /\ last' = Call(IF fault THEN "write_rom_fault" ELSE "write_rom", offset, copied)

InitRom ==
  /\ chip \in {device_start_ymf271, Board}
  /\ last = Call("start", U32(0), U32(0))
  /\ obs = NoObs
  /\ nops = 0

NextRom == \E offset \in RomOffsets, length \in RomLengths : WriteRom(offset, length)

SpecRom == InitRom /\ [][NextRom]_vars

\* ------------------------------------------------------------------------
\* C39
\* ------------------------------------------------------------------------
\* C39: for every 32-bit offset and length, write_rom(offset, length, data)
\* writes only bytes inside [0, mem_size) of the ROM bank, the copied length
\* being clamped to mem_size - offset, also when offset + length overflows
\* 32 bits; a write with offset > mem_size changes nothing.
C39_WriteRomInsideBank ==
  [][/\ last'.op \in {"write_rom", "write_rom_fault"} =>
          /\ copy_inside(chip, last'.a, last'.b)
          /\ chip'.mem_size = chip.mem_size
     /\ last'.op = "write_rom_skipped" => chip' = chip]_vars
=============================================================================
